---------------------------- MODULE Spec2Model ----------------------------
(***************************************************************************)
(* Cut resolution and splice synthesis of silero-scribe-mfa-llm.           *)
(*                                                                         *)
(*  - CutParserService.run          (src/src/services/cut_parser_service.py)*)
(*  - PipelineOrchestrator.run      (src/src/pipeline_orchestrator.py)     *)
(*  - AudioEditorService            (src/src/services/audio_editor_service.py)*)
(*  - ScribeNormalizerService.run   (src/src/services/scribe_normalizer_service.py)*)
(*  - TranscriptionChunkerService.run (src/src/services/transcription_chunker_service.py)*)
(*  - MfaChunkerService.run, MfaNormalizerService.run                      *)
(*                                                                         *)
(* A text is a sequence of symbols.  A symbol is one character, except     *)
(* that the two tags "<cut>" and "</cut>" and the event label "(x)" are    *)
(* single symbols: no transcript of the model holds a partial tag.         *)
(***************************************************************************)
EXTENDS Integers, Sequences, FiniteSets, TLC

VARIABLES
    \* ---- CutParserService.run
    original_words,          \* the canonical sequence: records id, text, type
    marked_transcript,       \* the marked transcript, a text
    marked_tokens,           \* processed_text.split()
    token_idx,               \* 0-based cursor into marked_tokens
    word_idx,                \* 0-based cursor into original_words
    is_inside_cut_segment,
    current_segment,
    all_segments,
    iters,                   \* history: loop iterations executed so far
    skipped_tags,            \* history: tags passed over by the lookahead
    sync_warnings,           \* the "Sync warning" lines logged so far
    pc,
    \* ---- how the transcript was produced
    base_transcript,         \* the exact round-trip transcript
    wrapped_runs,            \* the id runs wrapped in it
    drift,                   \* what was done to it: kind, position, token
    \* ---- PipelineOrchestrator.run, the cut loop
    final_mfa_data,          \* the aligned words, in list order
    cut_i,                   \* 0-based index of the loop over cut_segments
    rejected,                \* runs skipped by the boundary-word check
    editor_calls,            \* runs passed to AudioEditorService.run
    writer_calls,            \* runs passed to DatasetGeneratorService.run
    datapoints,              \* runs a datapoint was written for
    \* ---- AudioEditorService._get_cut_boundaries
    mfa_data,                \* the aligned words with their times
    cut_word_ids,            \* segment_word_ids
    backward_invasion,       \* in tenths
    forward_invasion,        \* in tenths
    boundaries,              \* the returned (start_time, end_time), in tenths
                             \* of a tick
    draws,                   \* the invasion factors drawn at random so far
    \* ---- AudioEditorService._find_outward_zero_crossing
    y_full,                  \* the signal: samples, first one at index 0
    sample_index,
    direction,
    snapped,                 \* the returned index, once returned
    resnapped,               \* the index returned for the returned index
    \* ---- AudioEditorService.run, one variant of a cut
    samples_per_ms,          \* sr / 1000
    chunk_start_ms,          \* chunk_start_s, in ms
    original_chunk,          \* the ms frames of full_audio in the chunk
    cut_samples,             \* the snapped start and end sample
    cut_chunk,               \* what _perform_direct_cut returned
    edit_results,            \* what run returned
    \* ---- PipelineOrchestrator.run, the usability of a synthesized cut
    split_points,            \* the eligible split points, in ticks
    chunk_words,
    is_usable,
    \* ---- MfaChunkerService.run and MfaNormalizerService.run
    mfa_chunks,              \* the chunks defined so far
    current_start_s,         \* in ticks
    textgrid_i,              \* 0-based index of the loop over textgrid_files
    \* ---- ScribeNormalizerService.run
    objects,                 \* the dicts of the heap, by address 1, 2, ...
    raw_items,               \* history: the dicts as they were handed in
    scribe_results,          \* per chunk, the addresses of its items
    chunk_df,                \* per chunk, its chunk_start_ms, in ticks
    master_words,            \* master_transcript['words'], as addresses
    result_i,                \* 0-based index of the loop over scribe_results
    \* ---- TranscriptionChunkerService.run
    split_point_ms,          \* the column split_point_ms, as a list
    max_duration_ms,
    chunks,
    current_chunk_start_index

parser_vars == << original_words, marked_transcript, marked_tokens, token_idx,
                  word_idx, is_inside_cut_segment, current_segment,
                  all_segments, iters, skipped_tags, sync_warnings, pc >>
source_vars == << base_transcript, wrapped_runs, drift >>
orch_vars == << final_mfa_data, cut_i, rejected, editor_calls, writer_calls,
                datapoints >>
editor_vars == << mfa_data, cut_word_ids, backward_invasion, forward_invasion,
                  boundaries, draws >>
snap_vars == << y_full, sample_index, direction, snapped, resnapped >>
splice_vars == << samples_per_ms, chunk_start_ms, original_chunk, cut_samples,
                  cut_chunk, edit_results >>
usable_vars == << split_points, chunk_words, is_usable >>
align_vars == << mfa_chunks, current_start_s, textgrid_i >>
norm_vars == << objects, raw_items, scribe_results, chunk_df, master_words,
                result_i >>
chunker_vars == << split_point_ms, max_duration_ms, chunks,
                   current_chunk_start_index >>
stage_vars == << align_vars, norm_vars, chunker_vars >>
rest_vars == << snap_vars, splice_vars, usable_vars, stage_vars >>
other_vars == << source_vars, orch_vars, editor_vars, rest_vars >>
vars == << parser_vars, other_vars >>

---------------------------------------------------------------------------
(* Bounds of the model.                                                    *)

MaxTokens == 3      \* tokens of an arbitrary transcript
MaxWords == 2       \* entries of an arbitrary canonical sequence
MaxCanon == 3       \* entries of a canonical sequence behind a round trip
MaxAligned == 3     \* aligned words handed to the boundary calculator
MaxTime == 2        \* latest word time, in ticks
MaxSamples == 4     \* samples of a signal handed to the zero-crossing snap
MaxMs == 2          \* length of the recording, in ms
MaxSpoken == 4      \* words of a recording whose cut is judged usable or not
MaxMerged == 3      \* items of the transcription results that are merged
MaxEntries == 4     \* entries of a transcript that is chunked for the aligner
MaxPoints == 4      \* split points handed to the transcription chunker

---------------------------------------------------------------------------
(* Texts.                                                                  *)

CutOpen == "<cut>"
CutClose == "</cut>"
Space == " "

\* str.lower() on the symbols of the model.
LowerChar(c) ==
    CASE c = "A" -> "a"
      [] c = "B" -> "b"
      [] OTHER -> c

Lower(text) == [i \in 1..Len(text) |-> LowerChar(text[i])]

\* The characters that strip() removes: . , ; : ? ! ' " and the backquote
\* (written "backquote" here) and the space.
StripChars == {".", ",", ";", ":", "?", "!", "'", "\"", "backquote", " "}

RECURSIVE LStrip(_)
LStrip(text) ==
    IF text # <<>> /\ Head(text) \in StripChars THEN LStrip(Tail(text)) ELSE text

RECURSIVE RStrip(_)
RStrip(text) ==
    IF text # <<>> /\ text[Len(text)] \in StripChars
    THEN RStrip(SubSeq(text, 1, Len(text) - 1))
    ELSE text

Strip(text) == RStrip(LStrip(text))

\* CutParserService._normalize_word
normalize_word(word) == Strip(Lower(word))

\* str.split() of the text after both replace() calls: whitespace separates
\* tokens, and a tag, padded with spaces, is a token of its own.
RECURSIVE SplitFrom(_, _, _, _)
SplitFrom(text, i, cur, out) ==
    LET flushed == IF cur = <<>> THEN out ELSE Append(out, cur) IN
    IF i > Len(text) THEN flushed
    ELSE IF text[i] = Space THEN SplitFrom(text, i + 1, <<>>, flushed)
    ELSE IF text[i] \in {CutOpen, CutClose}
         THEN SplitFrom(text, i + 1, <<>>, Append(flushed, <<text[i]>>))
    ELSE SplitFrom(text, i + 1, Append(cur, text[i]), out)

Tokenize(text) == SplitFrom(text, 1, <<>>, <<>>)

\* " ".join(tokens)
RECURSIVE JoinTokens(_)
JoinTokens(toks) ==
    IF toks = <<>> THEN <<>>
    ELSE IF Len(toks) = 1 THEN toks[1]
    ELSE toks[1] \o <<Space>> \o JoinTokens(Tail(toks))

---------------------------------------------------------------------------
(* CutParserService.run as a step function on the loop's locals.           *)

lookahead_limit == 5

ParserStart ==
    [ token_idx |-> 0, word_idx |-> 0, inside |-> FALSE,
      cur |-> <<>>, segs |-> <<>>, skipped |-> 0, warned |-> 0 ]

\* while token_idx < len(marked_tokens) and word_idx < len(original_words)
LoopCond(toks, words, ps) ==
    ps.token_idx < Len(toks) /\ ps.word_idx < Len(words)

TokenAt(toks, ps) == toks[ps.token_idx + 1]
WordAt(words, ps) == words[ps.word_idx + 1]

\* if current_segment: all_segments.append(current_segment)
Emit(segs, cur) == IF cur # <<>> THEN Append(segs, cur) ELSE segs

\* A plausible slip: the id is appended whatever the entry's type.
AppendAnyType(cur, w) == Append(cur, w.id)

\* if original_word_obj.get('type') == 'word': current_segment.append(id)
AppendIfWord(cur, w) == IF w.type = "word" THEN Append(cur, w.id) ELSE cur

\* The first i in 1..lookahead_limit with a token at token_idx + i whose
\* normalized text is the canonical word's; 0 when there is none.
Resync(toks, tidx, target) ==
    LET hits == { i \in 1..lookahead_limit :
                    /\ tidx + i < Len(toks)
                    /\ normalize_word(toks[tidx + i + 1]) = target }
    IN IF hits = {} THEN 0 ELSE CHOOSE i \in hits : \A j \in hits : i <= j

\* Which branch of the loop body the iteration takes.
Branch(toks, words, ps) ==
    LET tok == TokenAt(toks, ps)
        w == WordAt(words, ps)
    IN  IF tok = <<CutOpen>> THEN "open"
        ELSE IF tok = <<CutClose>> THEN "close"
        ELSE IF normalize_word(tok) = <<>> THEN "empty"
        ELSE IF w.type = "spacing" THEN "spacing"
        ELSE IF normalize_word(tok) = normalize_word(w.text) THEN "match"
        ELSE IF Resync(toks, ps.token_idx, normalize_word(w.text)) # 0 THEN "resync"
        ELSE "omit"

StepOpen(ps) ==
    [ps EXCEPT !.inside = TRUE, !.cur = <<>>, !.token_idx = @ + 1]

\* A plausible slip: the run is emitted but the flag is left set.
StepCloseStaysInside(ps) ==
    IF ps.inside
    THEN [ps EXCEPT !.segs = Emit(ps.segs, ps.cur), !.cur = <<>>,
                    !.token_idx = @ + 1]
    ELSE [ps EXCEPT !.token_idx = @ + 1]

\* lines 42-49
StepClose(ps) ==
    IF ps.inside
    THEN [ps EXCEPT !.inside = FALSE, !.segs = Emit(ps.segs, ps.cur),
                    !.cur = <<>>, !.token_idx = @ + 1]
    ELSE [ps EXCEPT !.token_idx = @ + 1]

StepEmpty(ps) == [ps EXCEPT !.token_idx = @ + 1]

\* A plausible slip: the current token is dropped with the spacing entry.
StepSpacingWithToken(ps) ==
    [ps EXCEPT !.word_idx = @ + 1, !.token_idx = @ + 1]

\* lines 60-62
StepSpacing(ps) == [ps EXCEPT !.word_idx = @ + 1]

StepMatch(words, ps) ==
    [ps EXCEPT !.cur = IF ps.inside THEN AppendIfWord(ps.cur, WordAt(words, ps)) ELSE @,
               !.token_idx = @ + 1, !.word_idx = @ + 1]

TagsIn(toks, from, to) ==
    Cardinality({ k \in from..to : toks[k] \in {<<CutOpen>>, <<CutClose>>} })

StepResync(toks, words, ps) ==
    LET i == Resync(toks, ps.token_idx, normalize_word(WordAt(words, ps).text)) IN
    [ps EXCEPT !.token_idx = @ + i, !.warned = @ + 1,
               !.skipped = @ + TagsIn(toks, ps.token_idx + 1, ps.token_idx + i)]

\* A plausible slip: the mismatching token is dropped with the word.
StepOmitBoth(ps) ==
    [ps EXCEPT !.word_idx = @ + 1, !.token_idx = @ + 1, !.warned = @ + 1]

\* A plausible slip: the omitted word is not stepped over.
StepOmitStuck(ps) == [ps EXCEPT !.warned = @ + 1]

StepOmit(ps) == [ps EXCEPT !.word_idx = @ + 1, !.warned = @ + 1]

Step(toks, words, ps) ==
    LET b == Branch(toks, words, ps) IN
    CASE b = "open" -> StepOpen(ps)
      [] b = "close" -> StepClose(ps)
      [] b = "empty" -> StepEmpty(ps)
      [] b = "spacing" -> StepSpacing(ps)
      [] b = "match" -> StepMatch(words, ps)
      [] b = "resync" -> StepResync(toks, words, ps)
      [] OTHER -> StepOmit(ps)

\* if is_inside_cut_segment and current_segment: all_segments.append(...)
StepFinish(ps) ==
    IF ps.inside THEN [ps EXCEPT !.segs = Emit(ps.segs, ps.cur)] ELSE ps

RECURSIVE RunFrom(_, _, _)
RunFrom(toks, words, ps) ==
    IF LoopCond(toks, words, ps)
    THEN RunFrom(toks, words, Step(toks, words, ps))
    ELSE StepFinish(ps)

\* CutParserService.run as a function of its two arguments: the locals at
\* the return, and the list returned.
ParseFinal(words, transcript) == RunFrom(Tokenize(transcript), words, ParserStart)

ParseRun(words, transcript) == ParseFinal(words, transcript).segs

---------------------------------------------------------------------------
(* The inputs of the model.                                                *)

SeqsUpTo(S, n) == UNION { [1..k -> S] : k \in 0..n }

WordA == [type |-> "word", text |-> <<"a">>]
WordB == [type |-> "word", text |-> <<"B", ".">>]
WordDots == [type |-> "word", text |-> <<".", ".", ".">>]
Spacing == [type |-> "spacing", text |-> <<" ">>]
Event == [type |-> "audio_event", text |-> <<"(x)">>]

EntryKinds == {WordA, WordB, WordDots, Spacing, Event}

\* The tokens of an arbitrary transcript: the tags, "A," and "b" (the two
\* words up to case and punctuation), "..." and the event label.
TokenAlphabet ==
    { <<CutOpen>>, <<CutClose>>, <<"A", ",">>, <<"b">>, <<".", ".", ".">>, <<"(x)">> }

\* ScribeNormalizerService.run numbers the entries 0, 1, 2, ... in list order.
WithIds(kinds) ==
    [i \in 1..Len(kinds) |-> [id |-> i - 1, text |-> kinds[i].text, type |-> kinds[i].type]]

NoDrift == [kind |-> "none", pos |-> 0, tok |-> <<>>]

\* The cut loop has not started.
OrchReset ==
    /\ cut_i = 0
    /\ rejected = <<>>
    /\ editor_calls = <<>>
    /\ writer_calls = <<>>
    /\ datapoints = <<>>

\* No boundary has been asked for.
EditorIdle ==
    /\ mfa_data = <<>>
    /\ cut_word_ids = <<>>
    /\ backward_invasion = 0
    /\ forward_invasion = 0
    /\ boundaries = <<>>
    /\ draws = <<>>

\* No zero crossing has been asked for.
SnapIdle ==
    /\ y_full = <<>>
    /\ sample_index = 0
    /\ direction = "forward"
    /\ snapped = <<>>
    /\ resnapped = <<>>

\* No variant is being cut.
SpliceIdle ==
    /\ samples_per_ms = 1
    /\ chunk_start_ms = 0
    /\ original_chunk = <<>>
    /\ cut_samples = <<>>
    /\ cut_chunk = <<>>
    /\ edit_results = <<>>

\* No cut is being judged.
UsableIdle ==
    /\ split_points = {}
    /\ chunk_words = <<>>
    /\ is_usable = TRUE

\* The stages after the boundaries have not started.
\* No chunk has been defined for the aligner.
AlignIdle ==
    /\ mfa_chunks = <<>>
    /\ current_start_s = 0
    /\ textgrid_i = 0

\* No transcription result is being merged.
NormIdle ==
    /\ objects = <<>>
    /\ raw_items = <<>>
    /\ scribe_results = <<>>
    /\ chunk_df = <<>>
    /\ master_words = <<>>
    /\ result_i = 0

\* No transcription chunk is being defined.
ChunkerIdle ==
    /\ split_point_ms = <<>>
    /\ max_duration_ms = 0
    /\ chunks = <<>>
    /\ current_chunk_start_index = 0

\* The stages before the cut parser are not being run.
StagesIdle == AlignIdle /\ NormIdle /\ ChunkerIdle

RestIdle == SnapIdle /\ SpliceIdle /\ UsableIdle /\ StagesIdle

\* The parser run on its own: no aligned words, no cut loop.
OrchIdle == final_mfa_data = <<>> /\ OrchReset /\ EditorIdle /\ RestIdle

\* Before run(): any canonical sequence, any transcript.
InitParse ==
    /\ \E kinds \in SeqsUpTo(EntryKinds, MaxWords) : original_words = WithIds(kinds)
    /\ \E toks \in SeqsUpTo(TokenAlphabet, MaxTokens) :
          /\ marked_transcript = JoinTokens(toks)
          /\ base_transcript = JoinTokens(toks)
    /\ wrapped_runs = <<>>
    /\ drift = NoDrift
    /\ marked_tokens = <<>>
    /\ token_idx = 0
    /\ word_idx = 0
    /\ is_inside_cut_segment = FALSE
    /\ current_segment = <<>>
    /\ all_segments = <<>>
    /\ iters = 0
    /\ skipped_tags = 0
    /\ sync_warnings = 0
    /\ pc = "start"
    /\ OrchIdle

---------------------------------------------------------------------------
(* Round-trip transcripts and one-token drift.                             *)
(*                                                                         *)
(* A marking labels each entry of type 'word', in order: "O" outside every *)
(* span, "S" the first word of a span, "C" a further word of the span the  *)
(* word before it is in.  Entries of other types have no token.            *)

WordCount(kinds) == Cardinality({ i \in 1..Len(kinds) : kinds[i].type = "word" })

Markings(n) ==
    { m \in [1..n -> {"O", "S", "C"}] :
        \A k \in 1..n : m[k] = "C" => (k > 1 /\ m[k - 1] # "O") }

OpenTag == [text |-> <<CutOpen>>, tag |-> TRUE, span |-> TRUE]
CloseTag == [text |-> <<CutClose>>, tag |-> TRUE, span |-> TRUE]

\* The tokens of the exact transcript: each word's text, each span wrapped.
RECURSIVE BuildTokens(_, _, _, _, _)
BuildTokens(words, marks, i, k, open) ==
    IF i > Len(words) THEN (IF open THEN <<CloseTag>> ELSE <<>>)
    ELSE IF words[i].type # "word" THEN BuildTokens(words, marks, i + 1, k, open)
    ELSE LET m == marks[k + 1]
             pre == (IF open /\ m # "C" THEN <<CloseTag>> ELSE <<>>)
                    \o (IF m = "S" THEN <<OpenTag>> ELSE <<>>)
             tok == [text |-> words[i].text, tag |-> FALSE, span |-> (m # "O")]
         IN pre \o <<tok>> \o BuildTokens(words, marks, i + 1, k + 1, m # "O")

\* The id runs that the marking wraps.
RECURSIVE BuildRuns(_, _, _, _, _)
BuildRuns(words, marks, i, k, runs) ==
    IF i > Len(words) THEN runs
    ELSE IF words[i].type # "word" THEN BuildRuns(words, marks, i + 1, k, runs)
    ELSE LET m == marks[k + 1]
             next == CASE m = "S" -> Append(runs, <<words[i].id>>)
                       [] m = "C" -> [runs EXCEPT ![Len(runs)] = Append(@, words[i].id)]
                       [] OTHER -> runs
         IN BuildRuns(words, marks, i + 1, k + 1, next)

\* The transcript as text: a space between two tokens, none between a
\* "<cut>" and the word after it or a word and the "</cut>" after it.
RECURSIVE Render(_)
Render(toks) ==
    IF toks = <<>> THEN <<>>
    ELSE IF Len(toks) = 1 THEN toks[1].text
    ELSE LET glue == IF toks[1].text = <<CutOpen>> \/ toks[2].text = <<CutClose>>
                     THEN <<>> ELSE <<Space>>
         IN toks[1].text \o glue \o Render(Tail(toks))

\* Whether the place after the first p tokens lies inside a span.
InsideAfter(toks, p) ==
    \E q \in 1..p : /\ toks[q].text = <<CutOpen>>
                    /\ \A r \in (q + 1)..p : toks[r].text # <<CutClose>>

InsertedTokens == { <<"x">>, <<"a">> }
AlteredToken == <<"x">>

InsertAt(toks, p, t) ==
    SubSeq(toks, 1, p) \o <<[text |-> t, tag |-> FALSE, span |-> FALSE]>>
                       \o SubSeq(toks, p + 1, Len(toks))

DeleteAt(toks, p) == SubSeq(toks, 1, p - 1) \o SubSeq(toks, p + 1, Len(toks))

AlterAt(toks, p, t) == [toks EXCEPT ![p].text = t]

\* What the labeler may have done to the exact transcript: nothing; one
\* non-tag token inserted outside every span; one word deleted outside every
\* span; one word of a span deleted or altered.
Drifts(toks) ==
    {NoDrift}
    \cup { [kind |-> "insert", pos |-> p, tok |-> t] :
             p \in { q \in 0..Len(toks) : ~InsideAfter(toks, q) }, t \in InsertedTokens }
    \cup { [kind |-> "delete", pos |-> p, tok |-> <<>>] :
             p \in { q \in 1..Len(toks) : ~toks[q].tag /\ ~toks[q].span } }
    \cup { [kind |-> "delete_in", pos |-> p, tok |-> <<>>] :
             p \in { q \in 1..Len(toks) : ~toks[q].tag /\ toks[q].span } }
    \cup { [kind |-> "alter_in", pos |-> p, tok |-> AlteredToken] :
             p \in { q \in 1..Len(toks) : ~toks[q].tag /\ toks[q].span } }

ApplyDrift(toks, d) ==
    CASE d.kind = "insert" -> InsertAt(toks, d.pos, d.tok)
      [] d.kind \in {"delete", "delete_in"} -> DeleteAt(toks, d.pos)
      [] d.kind = "alter_in" -> AlterAt(toks, d.pos, d.tok)
      [] OTHER -> toks

DriftKinds == {WordA, WordB, WordDots, Spacing}

\* Before run(): a canonical sequence, its exact transcript with some spans
\* wrapped, and the transcript handed to the parser after one drift.
InitDrift ==
    /\ \E kinds \in SeqsUpTo(DriftKinds, MaxCanon) :
         /\ kinds # <<>>
         /\ original_words = WithIds(kinds)
         /\ \E marks \in Markings(WordCount(kinds)) :
              LET toks == BuildTokens(WithIds(kinds), marks, 1, 0, FALSE) IN
              /\ base_transcript = Render(toks)
              /\ wrapped_runs = BuildRuns(WithIds(kinds), marks, 1, 0, <<>>)
              /\ \E d \in Drifts(toks) :
                   /\ drift = d
                   /\ marked_transcript = Render(ApplyDrift(toks, d))
    /\ marked_tokens = <<>>
    /\ token_idx = 0
    /\ word_idx = 0
    /\ is_inside_cut_segment = FALSE
    /\ current_segment = <<>>
    /\ all_segments = <<>>
    /\ iters = 0
    /\ skipped_tags = 0
    /\ sync_warnings = 0
    /\ pc = "start"
    /\ OrchIdle

---------------------------------------------------------------------------
(* CutParserService.run, one action per branch of the loop body.           *)

PS == [ token_idx |-> token_idx, word_idx |-> word_idx,
        inside |-> is_inside_cut_segment, cur |-> current_segment,
        segs |-> all_segments, skipped |-> skipped_tags,
        warned |-> sync_warnings ]

SetPS(ps) ==
    /\ token_idx' = ps.token_idx
    /\ word_idx' = ps.word_idx
    /\ is_inside_cut_segment' = ps.inside
    /\ current_segment' = ps.cur
    /\ all_segments' = ps.segs
    /\ skipped_tags' = ps.skipped
    /\ sync_warnings' = ps.warned

InLoop(b) ==
    /\ pc = "loop"
    /\ LoopCond(marked_tokens, original_words, PS)
    /\ Branch(marked_tokens, original_words, PS) = b

Iterate(ps) ==
    /\ SetPS(ps)
    /\ iters' = iters + 1
    /\ UNCHANGED << original_words, marked_transcript, marked_tokens, pc, other_vars >>

\* lines 23-31: tokenize, reset the cursors
ParserBegin ==
    /\ pc = "start"
    /\ marked_tokens' = Tokenize(marked_transcript)
    /\ SetPS(ParserStart)
    /\ pc' = "loop"
    /\ UNCHANGED << original_words, marked_transcript, iters, other_vars >>

TagOpen == InLoop("open") /\ Iterate(StepOpen(PS))

TagClose == InLoop("close") /\ Iterate(StepClose(PS))

EmptyToken == InLoop("empty") /\ Iterate(StepEmpty(PS))

SkipSpacing == InLoop("spacing") /\ Iterate(StepSpacing(PS))

Match == InLoop("match") /\ Iterate(StepMatch(original_words, PS))

Lookahead == InLoop("resync") /\ Iterate(StepResync(marked_tokens, original_words, PS))

OmitWord == InLoop("omit") /\ Iterate(StepOmit(PS))

\* lines 99-103: the loop has ended; emit the open run and return
ParserReturn ==
    /\ pc = "loop"
    /\ ~LoopCond(marked_tokens, original_words, PS)
    /\ SetPS(StepFinish(PS))
    /\ pc' = "done"
    /\ UNCHANGED << original_words, marked_transcript, marked_tokens, iters, other_vars >>

ParserNext ==
    \/ ParserBegin
    \/ TagOpen
    \/ TagClose
    \/ EmptyToken
    \/ SkipSpacing
    \/ Match
    \/ Lookahead
    \/ OmitWord
    \/ ParserReturn

SpecParse == InitParse /\ [][ParserNext]_vars

SpecDrift == InitDrift /\ [][ParserNext]_vars

---------------------------------------------------------------------------
(* PipelineOrchestrator.run: the aligned words and the cut loop.           *)

\* MfaNormalizerService._parse_textgrid, line 32: the words handed to MFA.
MfaInputWords(words) ==
    SelectSeq(words, LAMBDA w : w.type = "word" /\ w.text # <<".", ".", ".">>)

RECURSIVE Keep(_, _)
Keep(seq, mask) ==
    IF seq = <<>> THEN <<>>
    ELSE (IF mask[1] THEN <<seq[1]>> ELSE <<>>) \o Keep(Tail(seq), Tail(mask))

\* The aligned words: each keeps the id and text of its canonical word.  A
\* chunk whose TextGrid is missing or unreadable contributes no word, and
\* a chunk with fewer intervals than words loses its last words.
AlignedLists(words) ==
    LET input == MfaInputWords(words) IN
    { Keep([i \in 1..Len(input) |-> [id |-> input[i].id, word |-> input[i].text]], mask) :
        mask \in [1..Len(input) -> BOOLEAN] }

MfaIds(mfa) == { mfa[i].id : i \in 1..Len(mfa) }

\* A plausible slip: only the last word is tested.
IsLastWordCut(run, mfa) ==
    run = <<>> \/ run[Len(run)] = Len(mfa) - 1

\* lines 165-166: the boundary-word check
IsBoundaryCut(run, mfa) ==
    run = <<>> \/ run[1] = 0 \/ run[Len(run)] = Len(mfa) - 1

\* A plausible slip: only the first id is looked up.
EditorLooksUpFirstOnly(run, mfa) == run[1] \notin MfaIds(mfa)

\* AudioEditorService.run, lines 110-117: None when the first or the last
\* id of the run is not an aligned word.
EditorReturnsNone(run, mfa) ==
    run[1] \notin MfaIds(mfa) \/ run[Len(run)] \notin MfaIds(mfa)

\* The keys of the dict that AudioEditorService.run returns.
EditResultKeys ==
    { "original_audio", "natural_cut_audio", "backward_invasion_audio",
      "forward_invasion_audio", "metadata" }

\* The keyword arguments of the orchestrator's call of the dataset writer.
WriterCallKeywords ==
    { "source_audio_name", "cut_id", "cut_word_ids", "chunk_words",
      "edit_results", "is_usable" }

\* The parameters of DatasetGeneratorService.run.
WriterParameters ==
    { "source_audio_name", "cut_id", "edit_results", "cut_word_ids", "chunk_words" }

\* The call raises TypeError when a keyword is no parameter, and the body
\* raises KeyError at audios_to_save["natural_cut"] when the result has no
\* "audios" entry.
WriterRaises ==
    ~(WriterCallKeywords \subseteq WriterParameters) \/ "audios" \notin EditResultKeys

CurrentCut == all_segments[cut_i + 1]

\* lines 158-162: no segment, nothing to edit
CutsBegin ==
    /\ pc = "done"
    /\ pc' = IF all_segments = <<>> THEN "finished" ELSE "cuts"
    /\ UNCHANGED << original_words, marked_transcript, marked_tokens, token_idx,
                    word_idx, is_inside_cut_segment, current_segment, all_segments,
                    iters, skipped_tags, sync_warnings, other_vars >>

InCutLoop == pc = "cuts" /\ cut_i < Len(all_segments)

OrchStep ==
    UNCHANGED << original_words, marked_transcript, marked_tokens, token_idx,
                 word_idx, is_inside_cut_segment, current_segment, all_segments,
                 iters, skipped_tags, sync_warnings, source_vars, final_mfa_data,
                 editor_vars, rest_vars >>

\* lines 165-168: a boundary word, skip the segment
SkipBoundaryCut ==
    /\ InCutLoop
    /\ IsBoundaryCut(CurrentCut, final_mfa_data)
    /\ rejected' = Append(rejected, CurrentCut)
    /\ cut_i' = cut_i + 1
    /\ UNCHANGED << pc, editor_calls, writer_calls, datapoints >>
    /\ OrchStep

\* lines 172-183: the editor returns None, skip the segment
EditorSkipsCut ==
    /\ InCutLoop
    /\ ~IsBoundaryCut(CurrentCut, final_mfa_data)
    /\ EditorReturnsNone(CurrentCut, final_mfa_data)
    /\ editor_calls' = Append(editor_calls, CurrentCut)
    /\ cut_i' = cut_i + 1
    /\ UNCHANGED << pc, rejected, writer_calls, datapoints >>
    /\ OrchStep

\* lines 172-211: the editor returns its result and the dataset writer is
\* called with it; an exception of the writer ends PipelineOrchestrator.run
\* (main.py, lines 67-70, logs it and goes on to the next recording).
WriteDatapoint ==
    /\ InCutLoop
    /\ ~IsBoundaryCut(CurrentCut, final_mfa_data)
    /\ ~EditorReturnsNone(CurrentCut, final_mfa_data)
    /\ editor_calls' = Append(editor_calls, CurrentCut)
    /\ writer_calls' = Append(writer_calls, CurrentCut)
    /\ IF WriterRaises
       THEN pc' = "crashed" /\ UNCHANGED << cut_i, datapoints >>
       ELSE /\ datapoints' = Append(datapoints, CurrentCut)
            /\ cut_i' = cut_i + 1
            /\ UNCHANGED pc
    /\ UNCHANGED rejected
    /\ OrchStep

\* line 213: the loop has ended
CutsEnd ==
    /\ pc = "cuts"
    /\ cut_i = Len(all_segments)
    /\ pc' = "finished"
    /\ UNCHANGED << cut_i, rejected, editor_calls, writer_calls, datapoints >>
    /\ OrchStep

\* Before the editing stage: a canonical sequence numbered by the
\* normalizer, the aligned words, and the exact transcript with some spans
\* wrapped.
InitPipeline ==
    /\ \E kinds \in SeqsUpTo(DriftKinds, MaxCanon) :
         /\ kinds # <<>>
         /\ original_words = WithIds(kinds)
         /\ final_mfa_data \in AlignedLists(WithIds(kinds))
         /\ \E marks \in Markings(WordCount(kinds)) :
              LET toks == BuildTokens(WithIds(kinds), marks, 1, 0, FALSE) IN
              /\ base_transcript = Render(toks)
              /\ marked_transcript = Render(toks)
              /\ wrapped_runs = BuildRuns(WithIds(kinds), marks, 1, 0, <<>>)
    /\ drift = NoDrift
    /\ marked_tokens = <<>>
    /\ token_idx = 0
    /\ word_idx = 0
    /\ is_inside_cut_segment = FALSE
    /\ current_segment = <<>>
    /\ all_segments = <<>>
    /\ iters = 0
    /\ skipped_tags = 0
    /\ sync_warnings = 0
    /\ pc = "start"
    /\ OrchReset
    /\ EditorIdle
    /\ RestIdle

PipelineNext ==
    \/ ParserNext
    \/ CutsBegin
    \/ SkipBoundaryCut
    \/ EditorSkipsCut
    \/ WriteDatapoint
    \/ CutsEnd

SpecPipeline == InitPipeline /\ [][PipelineNext]_vars

---------------------------------------------------------------------------
(* AudioEditorService._get_cut_boundaries.  Word times are whole ticks;    *)
(* an invasion factor is given in tenths and a returned time in tenths of  *)
(* a tick, so that a midpoint and a factor times a duration are integers.  *)

\* __init__, lines 17-18: the configured factors, 0.8 by default
backward_phoneme_invasion_factor == 8
forward_phoneme_invasion_factor == 8

\* next((i for i, item in enumerate(all_words_list) if item["id"] == id), -1)
IndexOf(all_words_list, id) ==
    LET hits == { i \in 1..Len(all_words_list) : all_words_list[i].id = id } IN
    IF hits = {} THEN -1
    ELSE (CHOOSE i \in hits : \A j \in hits : i <= j) - 1

\* word_id_map[id], lines 110 and 49-50: the last word of the list with
\* that id
WordById(all_words_list, id) ==
    LET hits == { i \in 1..Len(all_words_list) : all_words_list[i].id = id } IN
    all_words_list[CHOOSE i \in hits : \A j \in hits : j <= i]

\* A word or None: a sequence of at most one word.
PrevWord(all_words_list, first_word_index) ==
    IF first_word_index > 0 THEN << all_words_list[first_word_index] >> ELSE <<>>

NextWord(all_words_list, last_word_index) ==
    IF last_word_index # -1 /\ last_word_index < Len(all_words_list) - 1
    THEN << all_words_list[last_word_index + 2] >>
    ELSE <<>>

\* lines 57-62
InvadedStart(prev_word, first_word, factor) ==
    IF prev_word # <<>> /\ prev_word[1].phonemes # <<>>
    THEN LET last_phoneme == prev_word[1].phonemes[Len(prev_word[1].phonemes)]
             duration == last_phoneme.end - last_phoneme.start
         IN  10 * last_phoneme.end - duration * factor
    ELSE 10 * first_word.start

\* A plausible slip: the word's own start instead of the midpoint.
NaturalStartAtWord(prev_word, first_word) ==
    IF prev_word # <<>> THEN 10 * first_word.start ELSE 0

\* lines 64-68
NaturalStart(prev_word, first_word) ==
    IF prev_word # <<>>
    THEN 5 * (prev_word[1].end + first_word.start)
    ELSE 0

\* lines 72-77
InvadedEnd(last_word, next_word, factor) ==
    IF next_word # <<>> /\ next_word[1].phonemes # <<>>
    THEN LET first_phoneme == next_word[1].phonemes[1]
             duration == first_phoneme.end - first_phoneme.start
         IN  10 * first_phoneme.start + duration * factor
    ELSE 10 * last_word.end

\* A plausible slip: the midpoint taken to the end of the next word.
NaturalEndPastNext(last_word, next_word) ==
    IF next_word # <<>>
    THEN 5 * (last_word.end + next_word[1].end)
    ELSE 10 * last_word.end

\* lines 79-83
NaturalEnd(last_word, next_word) ==
    IF next_word # <<>>
    THEN 5 * (last_word.end + next_word[1].start)
    ELSE 10 * last_word.end

\* lines 37-85
get_cut_boundaries(segment_word_ids, all_words_list, backward, forward) ==
    LET first_word_id == segment_word_ids[1]
        last_word_id == segment_word_ids[Len(segment_word_ids)]
        first_word_of_segment == WordById(all_words_list, first_word_id)
        last_word_of_segment == WordById(all_words_list, last_word_id)
        first_word_index == IndexOf(all_words_list, first_word_id)
        last_word_index == IndexOf(all_words_list, last_word_id)
        prev_word == PrevWord(all_words_list, first_word_index)
        next_word == NextWord(all_words_list, last_word_index)
        start_time == IF backward > 0
                      THEN InvadedStart(prev_word, first_word_of_segment, backward)
                      ELSE NaturalStart(prev_word, first_word_of_segment)
        end_time == IF forward > 0
                    THEN InvadedEnd(last_word_of_segment, next_word, forward)
                    ELSE NaturalEnd(last_word_of_segment, next_word)
    IN  << start_time, end_time >>

\* run, lines 162, 166 and 170: the three calls of _get_cut_boundaries
InvasionPairs ==
    { << 0, 0 >>,
      << backward_phoneme_invasion_factor, 0 >>,
      << 0, forward_phoneme_invasion_factor >> }

\* A word's start and end, with start <= end.
Spans == { span \in (0..MaxTime) \X (0..MaxTime) : span[1] <= span[2] }

\* MfaNormalizerService._parse_textgrid, lines 46-66: an aligned word; with
\* a phones tier it has the phoneme that fills it, without one it has none.
AlignedWord(id, span, phone_tier) ==
    [ id |-> id, start |-> span[1], end |-> span[2],
      phonemes |-> IF phone_tier
                   THEN << [start |-> span[1], end |-> span[2]] >>
                   ELSE <<>> ]

\* Before a call of _get_cut_boundaries: any list of aligned words, in any
\* time order, and the ids of any stretch of it.
InitBoundary ==
    /\ \E n \in 1..MaxAligned :
         \E times \in [1..n -> Spans], phone_tier \in BOOLEAN :
           \E i \in 1..n, j \in 1..n :
             /\ i <= j
             /\ mfa_data = [k \in 1..n |-> AlignedWord(k - 1, times[k], phone_tier)]
             /\ cut_word_ids = [k \in 1..(j - i + 1) |-> i + k - 2]
    /\ backward_invasion = 0
    /\ forward_invasion = 0
    /\ boundaries = <<>>
    /\ original_words = <<>>
    /\ marked_transcript = <<>>
    /\ base_transcript = <<>>
    /\ wrapped_runs = <<>>
    /\ drift = NoDrift
    /\ marked_tokens = <<>>
    /\ token_idx = 0
    /\ word_idx = 0
    /\ is_inside_cut_segment = FALSE
    /\ current_segment = <<>>
    /\ all_segments = <<>>
    /\ iters = 0
    /\ skipped_tags = 0
    /\ sync_warnings = 0
    /\ pc = "editing"
    /\ final_mfa_data = <<>>
    /\ OrchReset
    /\ draws = <<>>
    /\ RestIdle

\* One call of _get_cut_boundaries by run, with a factor that __init__ took
\* from the configuration; run draws nothing.
GetCutBoundaries ==
    /\ pc = "editing"
    /\ \E pair \in InvasionPairs :
         /\ backward_invasion' = pair[1]
         /\ forward_invasion' = pair[2]
         /\ boundaries' = get_cut_boundaries(cut_word_ids, mfa_data, pair[1], pair[2])
    /\ pc' = "bounded"
    /\ UNCHANGED << original_words, marked_transcript, marked_tokens, token_idx,
                    word_idx, is_inside_cut_segment, current_segment, all_segments,
                    iters, skipped_tags, sync_warnings, source_vars, orch_vars,
                    mfa_data, cut_word_ids, draws, rest_vars >>

BoundaryNext == GetCutBoundaries

SpecBoundary == InitBoundary /\ [][BoundaryNext]_vars

---------------------------------------------------------------------------
(* AudioEditorService._find_outward_zero_crossing.                         *)

\* np.sign
Sign(x) == IF x > 0 THEN 1 ELSE IF x < 0 THEN -1 ELSE 0

Min(a, b) == IF a <= b THEN a ELSE b
Max(a, b) == IF a >= b THEN a ELSE b

\* line 22: 0 <= sample_index < len(signal)
InBounds(signal, index) == 0 <= index /\ index < Len(signal)

\* line 23
Clamp(signal, index) == Max(0, Min(Len(signal) - 1, index))

\* A plausible slip: the scan returns the sample it stopped at.
ScanForwardOntoCrossing(signal, index, start_sign) ==
    LET differs == { i \in (index + 1)..(Len(signal) - 1) :
                       Sign(signal[i + 1]) # start_sign }
    IN  IF differs = {} THEN Len(signal) - 1
        ELSE CHOOSE i \in differs : \A j \in differs : i <= j

\* lines 29-31
ScanForward(signal, index, start_sign) ==
    LET differs == { i \in (index + 1)..(Len(signal) - 1) :
                       Sign(signal[i + 1]) # start_sign }
    IN  IF differs = {} THEN Len(signal) - 1
        ELSE (CHOOSE i \in differs : \A j \in differs : i <= j) - 1

\* A plausible slip: the index of the sample of different sign is returned.
ScanBackwardOntoCrossing(signal, index, start_sign) ==
    LET differs == { i \in 0..(index - 1) : Sign(signal[i + 1]) # start_sign }
    IN  IF differs = {} THEN 0
        ELSE CHOOSE i \in differs : \A j \in differs : j <= i

\* lines 33-35
ScanBackward(signal, index, start_sign) ==
    LET differs == { i \in 0..(index - 1) : Sign(signal[i + 1]) # start_sign }
    IN  IF differs = {} THEN 0
        ELSE (CHOOSE i \in differs : \A j \in differs : j <= i) + 1

\* A plausible slip: the two directions are taken for each other.
find_inward_zero_crossing(signal, index, dir) ==
    IF ~InBounds(signal, index) THEN Clamp(signal, index)
    ELSE LET start_sign == Sign(signal[index + 1]) IN
         IF start_sign = 0 THEN index
         ELSE IF dir = "forward" THEN ScanBackward(signal, index, start_sign)
         ELSE ScanForward(signal, index, start_sign)

\* lines 20-35
find_outward_zero_crossing(signal, index, dir) ==
    IF ~InBounds(signal, index) THEN Clamp(signal, index)
    ELSE LET start_sign == Sign(signal[index + 1]) IN
         IF start_sign = 0 THEN index
         ELSE IF dir = "forward" THEN ScanForward(signal, index, start_sign)
         ELSE ScanBackward(signal, index, start_sign)

\* The values of a sample.
Amplitudes == {-2, -1, 0, 1}

Directions == {"forward", "backward"}

ParserIdle ==
    /\ original_words = <<>>
    /\ marked_transcript = <<>>
    /\ marked_tokens = <<>>
    /\ token_idx = 0
    /\ word_idx = 0
    /\ is_inside_cut_segment = FALSE
    /\ current_segment = <<>>
    /\ all_segments = <<>>
    /\ iters = 0
    /\ skipped_tags = 0
    /\ sync_warnings = 0

SourceIdle ==
    /\ base_transcript = <<>>
    /\ wrapped_runs = <<>>
    /\ drift = NoDrift

\* Before a call of _find_outward_zero_crossing: any signal, any index, in
\* bounds or not, either direction.
InitSnap ==
    /\ y_full \in SeqsUpTo(Amplitudes, MaxSamples)
    /\ sample_index \in -2..(MaxSamples + 1)
    /\ direction \in Directions
    /\ snapped = <<>>
    /\ resnapped = <<>>
    /\ pc = "snapping"
    /\ ParserIdle
    /\ SourceIdle
    /\ final_mfa_data = <<>>
    /\ OrchReset
    /\ EditorIdle
    /\ SpliceIdle
    /\ UsableIdle
    /\ StagesIdle

SnapStep ==
    UNCHANGED << original_words, marked_transcript, marked_tokens, token_idx,
                 word_idx, is_inside_cut_segment, current_segment, all_segments,
                 iters, skipped_tags, sync_warnings, source_vars, orch_vars,
                 editor_vars, y_full, sample_index, direction, splice_vars,
                 usable_vars, stage_vars >>

\* One call of _find_outward_zero_crossing.
Snap ==
    /\ pc = "snapping"
    /\ snapped' = << find_outward_zero_crossing(y_full, sample_index, direction) >>
    /\ pc' = "snapped"
    /\ UNCHANGED resnapped
    /\ SnapStep

\* A second call, on the index the first one returned.
SnapAgain ==
    /\ pc = "snapped"
    /\ resnapped' = << find_outward_zero_crossing(y_full, snapped[1], direction) >>
    /\ pc' = "resnapped"
    /\ UNCHANGED snapped
    /\ SnapStep

SnapNext == Snap \/ SnapAgain

SpecSnap == InitSnap /\ [][SnapNext]_vars

---------------------------------------------------------------------------
(* AudioEditorService.run, lines 143-190, for one variant of a cut, and    *)
(* _perform_direct_cut.  A tick is 1 ms.  A pydub segment is the sequence  *)
(* of its ms frames, each named by its place in full_audio; y_full holds   *)
(* samples_per_ms samples for each frame.                                  *)

\* int() of a quotient: truncation towards 0
TruncDiv(a, b) == IF a >= 0 THEN a \div b ELSE -((-a) \div b)

\* full_audio[from_ms:to_ms] for 0 <= from_ms and 0 <= to_ms
Slice(audio, from_ms, to_ms) ==
    LET lo == Min(from_ms, Len(audio))
        hi == Min(to_ms, Len(audio))
    IN  IF lo >= hi THEN <<>> ELSE SubSeq(audio, lo + 1, hi)

\* lines 163-164: int(time * sr), then the snap, outwards
SnapPair(signal, times, rate) ==
    << find_outward_zero_crossing(signal, (times[1] * rate) \div 10, "backward"),
       find_outward_zero_crossing(signal, (times[2] * rate) \div 10, "forward") >>

\* lines 88-89 with the argument of line 174: int((sample / sr - chunk_start_s) * 1000)
RelativeMs(sample, rate, start_ms) == TruncDiv(sample - start_ms * rate, rate)

\* line 90
InvalidCut(audio, start_ms, end_ms) ==
    start_ms < 0 \/ end_ms > Len(audio) \/ start_ms >= end_ms

\* lines 87-93
perform_direct_cut(audio, start_ms, end_ms) ==
    IF InvalidCut(audio, start_ms, end_ms) THEN audio
    ELSE Slice(audio, 0, start_ms) \o Slice(audio, end_ms, Len(audio))

\* sr / 1000 of the recordings
SampleRates == {1, 2}

Signs == {-1, 0, 1}

\* Before the variants of a cut are made: a recording of some ms, its
\* samples, a chunk of it, and the boundaries of a variant, which may be any
\* two times within the chunk, in whole ms.
InitSplice ==
    /\ \E ms \in 1..MaxMs, rate \in SampleRates :
         /\ samples_per_ms = rate
         /\ y_full \in [1..(ms * rate) -> Signs]
         /\ \E from_ms \in 0..ms, to_ms \in 0..ms :
              /\ from_ms <= to_ms
              /\ chunk_start_ms = from_ms
              /\ original_chunk = Slice([f \in 1..ms |-> f - 1], from_ms, to_ms)
              /\ boundaries \in { << 10 * a, 10 * b >> :
                                    a \in from_ms..to_ms, b \in from_ms..to_ms }
    /\ cut_samples = <<>>
    /\ cut_chunk = <<>>
    /\ edit_results = <<>>
    /\ pc = "variant"
    /\ sample_index = 0
    /\ direction = "forward"
    /\ snapped = <<>>
    /\ resnapped = <<>>
    /\ mfa_data = <<>>
    /\ cut_word_ids = <<>>
    /\ backward_invasion = 0
    /\ forward_invasion = 0
    /\ draws = <<>>
    /\ ParserIdle
    /\ SourceIdle
    /\ final_mfa_data = <<>>
    /\ OrchReset
    /\ UsableIdle
    /\ StagesIdle

SpliceStep ==
    UNCHANGED << original_words, marked_transcript, marked_tokens, token_idx,
                 word_idx, is_inside_cut_segment, current_segment, all_segments,
                 iters, skipped_tags, sync_warnings, source_vars, orch_vars,
                 editor_vars, snap_vars, samples_per_ms, chunk_start_ms,
                 original_chunk, usable_vars, stage_vars >>

\* lines 163-164 (167-168, 171-172): the boundaries are snapped
SnapBoundaries ==
    /\ pc = "variant"
    /\ cut_samples' = SnapPair(y_full, boundaries, samples_per_ms)
    /\ pc' = "variant_snapped"
    /\ UNCHANGED << cut_chunk, edit_results >>
    /\ SpliceStep

\* lines 174-176: the variant is cut out of the chunk
DirectCut ==
    /\ pc = "variant_snapped"
    /\ cut_chunk' =
         << perform_direct_cut(
              original_chunk,
              RelativeMs(cut_samples[1], samples_per_ms, chunk_start_ms),
              RelativeMs(cut_samples[2], samples_per_ms, chunk_start_ms)) >>
    /\ pc' = "variant_cut"
    /\ UNCHANGED << cut_samples, edit_results >>
    /\ SpliceStep

\* lines 178-190: run returns the chunk and the variant
ReturnResults ==
    /\ pc = "variant_cut"
    /\ edit_results' = << [ original_audio |-> original_chunk,
                            variant_audio |-> cut_chunk[1] ] >>
    /\ pc' = "returned"
    /\ UNCHANGED << cut_samples, cut_chunk >>
    /\ SpliceStep

SpliceNext == SnapBoundaries \/ DirectCut \/ ReturnResults

SpecSplice == InitSplice /\ [][SpliceNext]_vars

---------------------------------------------------------------------------
(* A synthesized cut: the chunk of AudioEditorService.run, lines 119-141,  *)
(* and the usability flag and the writer call of PipelineOrchestrator.run, *)
(* lines 185-211.  Times are whole ticks.                                  *)

SetMax(S) == CHOOSE x \in S : \A y \in S : y <= x
SetMin(S) == CHOOSE x \in S : \A y \in S : x <= y

\* lines 127-128
ContextStart(mfa, run) ==
    LET before == PrevWord(mfa, IndexOf(mfa, run[1])) IN
    IF before # <<>> THEN before[1].start ELSE WordById(mfa, run[1]).start

ContextEnd(mfa, run) ==
    LET after == NextWord(mfa, IndexOf(mfa, run[Len(run)])) IN
    IF after # <<>> THEN after[1].end ELSE WordById(mfa, run[Len(run)]).end

\* lines 135-136
ChunkStart(points, context_start_time) ==
    LET start_candidates == { q \in points : q <= context_start_time } IN
    IF start_candidates # {} THEN SetMax(start_candidates) ELSE 0

\* lines 139-140
ChunkEnd(points, context_end_time, total_duration) ==
    LET end_candidates == { q \in points : q >= context_end_time } IN
    IF end_candidates # {} THEN SetMin(end_candidates) ELSE total_duration

\* lines 178-190: the dict that run returns, the audio named by its variant
EditResults(chunk_start, chunk_end) ==
    [ original_audio |-> "original",
      natural_cut_audio |-> "natural",
      backward_invasion_audio |-> "backward",
      forward_invasion_audio |-> "forward",
      metadata |-> [ chunk_start_s_abs |-> chunk_start,
                     chunk_end_s_abs |-> chunk_end ] ]

\* orchestrator, lines 188-191
ChunkWords(words, chunk_start, chunk_end) ==
    SelectSeq(words, LAMBDA w : w.start >= chunk_start /\ w.end <= chunk_end)

\* mfa_word.get('is_timestamp_reliable', True): the flag is a sequence of at
\* most one boolean, empty when the word has no such key.
ReliableOrUnflagged(mfa_word) ==
    IF mfa_word.is_timestamp_reliable = <<>> THEN TRUE
    ELSE mfa_word.is_timestamp_reliable[1]

\* orchestrator, lines 194-201
IsUsable(words_of_chunk, mfa) ==
    \A i \in 1..Len(words_of_chunk) :
        LET hits == { k \in 1..Len(mfa) : mfa[k].id = words_of_chunk[i].id } IN
        hits = {} \/ ReliableOrUnflagged(mfa[SetMin(hits)])

\* DatasetGeneratorService.run, lines 40-46: the metadata record
WriterMetadata(results) ==
    [ is_usable |-> IF "is_usable" \in DOMAIN results THEN results.is_usable
                    ELSE FALSE,
      cut_text |-> IF "cut_text" \in DOMAIN results THEN results.cut_text
                   ELSE <<>> ]

WordTexts == << "a", "b", "c", "d", "e", "f" >>

\* A word of the transcript: number i of the recording, two ticks long.
SpokenWord(i) ==
    [ id |-> i - 1, text |-> WordTexts[i], type |-> "word",
      start |-> 2 * (i - 1), end |-> 2 * i ]

\* Its alignment: the aligner may hear the word begin a tick later than the
\* transcriber did; the flag is set, or missing for a reliable word.
AlignedSpoken(i, late, reliable, flagged) ==
    [ id |-> i - 1, word |-> WordTexts[i],
      start |-> IF late THEN 2 * (i - 1) + 1 ELSE 2 * (i - 1),
      end |-> 2 * i,
      is_timestamp_reliable |-> IF ~reliable THEN << FALSE >>
                                ELSE IF flagged THEN << TRUE >> ELSE <<>> ]

\* Before the editor is called for a run that passed the boundary-word
\* check and whose ends are aligned: a recording of n words, all aligned,
\* at most one of them heard late, any reliability flags, at most two split
\* points (only the nearest one on each side counts).
InitUsable ==
    /\ \E n \in 3..MaxSpoken :
         /\ original_words = [i \in 1..n |-> SpokenWord(i)]
         /\ \E late \in 0..n, unreliable \in SUBSET (1..n), flagged \in BOOLEAN :
              final_mfa_data =
                [i \in 1..n |-> AlignedSpoken(i, i = late, i \notin unreliable, flagged)]
         /\ \E first \in 1..(n - 1), last \in 1..(n - 1) :
              /\ first <= last
              /\ cut_word_ids = [k \in 1..(last - first + 1) |-> first + k - 1]
         /\ split_points \in { S \in SUBSET (0..(2 * n)) : Cardinality(S) <= 2 }
    /\ ~IsBoundaryCut(cut_word_ids, final_mfa_data)
    /\ chunk_words = <<>>
    /\ is_usable = TRUE
    /\ edit_results = <<>>
    /\ pc = "synthesize"
    /\ marked_transcript = <<>>
    /\ marked_tokens = <<>>
    /\ token_idx = 0
    /\ word_idx = 0
    /\ is_inside_cut_segment = FALSE
    /\ current_segment = <<>>
    /\ all_segments = <<>>
    /\ iters = 0
    /\ skipped_tags = 0
    /\ sync_warnings = 0
    /\ SourceIdle
    /\ OrchReset
    /\ mfa_data = <<>>
    /\ backward_invasion = 0
    /\ forward_invasion = 0
    /\ boundaries = <<>>
    /\ draws = <<>>
    /\ SnapIdle
    /\ samples_per_ms = 1
    /\ chunk_start_ms = 0
    /\ original_chunk = <<>>
    /\ cut_samples = <<>>
    /\ cut_chunk = <<>>
    /\ StagesIdle

UsableStep ==
    UNCHANGED << original_words, marked_transcript, marked_tokens, token_idx,
                 word_idx, is_inside_cut_segment, current_segment, all_segments,
                 iters, skipped_tags, sync_warnings, source_vars, final_mfa_data,
                 cut_i, rejected, mfa_data, cut_word_ids, backward_invasion,
                 forward_invasion, boundaries, draws, snap_vars, samples_per_ms,
                 chunk_start_ms, original_chunk, cut_samples, cut_chunk,
                 split_points, stage_vars >>

\* The end of the recording: len(full_audio) / 1000.0
TotalDuration == original_words[Len(original_words)].end

\* AudioEditorService.run, lines 119-190: the chunk and the result
EditCut ==
    /\ pc = "synthesize"
    /\ editor_calls' = Append(editor_calls, cut_word_ids)
    /\ edit_results' =
         << EditResults(
              ChunkStart(split_points, ContextStart(final_mfa_data, cut_word_ids)),
              ChunkEnd(split_points, ContextEnd(final_mfa_data, cut_word_ids),
                       TotalDuration)) >>
    /\ pc' = "edited"
    /\ UNCHANGED << chunk_words, is_usable, writer_calls, datapoints >>
    /\ UsableStep

\* orchestrator, lines 185-202
JudgeUsable ==
    /\ pc = "edited"
    /\ LET found == ChunkWords(original_words,
                               edit_results[1].metadata.chunk_start_s_abs,
                               edit_results[1].metadata.chunk_end_s_abs)
       IN /\ chunk_words' = found
          /\ is_usable' = IsUsable(found, final_mfa_data)
    /\ pc' = "judged"
    /\ UNCHANGED << edit_results, editor_calls, writer_calls, datapoints >>
    /\ UsableStep

\* orchestrator, lines 204-211, and DatasetGeneratorService.run
CallWriter ==
    /\ pc = "judged"
    /\ writer_calls' = Append(writer_calls, cut_word_ids)
    /\ IF WriterRaises
       THEN pc' = "crashed" /\ UNCHANGED datapoints
       ELSE /\ datapoints' = Append(datapoints, WriterMetadata(edit_results[1]))
            /\ pc' = "written"
    /\ UNCHANGED << edit_results, editor_calls, chunk_words, is_usable >>
    /\ UsableStep

UsableNext == EditCut \/ JudgeUsable \/ CallWriter

SpecUsable == InitUsable /\ [][UsableNext]_vars

---------------------------------------------------------------------------
(* ScribeNormalizerService.run.  A dict is an entry of the heap `objects`, *)
(* named by its address; a list of dicts is a sequence of addresses.  A    *)
(* tick is 1 ms, and every time is a whole number of ms, which round(.., 3)*)
(* of a time in seconds leaves as it is.                                   *)

ItemTypes == { "word", "spacing", "audio_event" }

\* An item of a raw result: it has no 'id' key (the id is a sequence of at
\* most one number).
RawItem(type, start) ==
    [ type |-> type, start |-> start, end |-> start + 1, id |-> <<>> ]

\* The other stages are idle.
OnlyStage(idle) ==
    /\ ParserIdle
    /\ SourceIdle
    /\ final_mfa_data = <<>>
    /\ OrchReset
    /\ EditorIdle
    /\ SnapIdle
    /\ SpliceIdle
    /\ idle

\* The chunks of a sequence that is cut before the places in `cuts`.
RECURSIVE CutInto(_, _)
CutInto(seq, cuts) ==
    IF seq = <<>> THEN <<>>
    ELSE LET later == { c \in cuts : c > 1 }
             stop == IF later = {} THEN Len(seq) + 1
                     ELSE CHOOSE c \in later : \A d \in later : c <= d
         IN  << SubSeq(seq, 1, stop - 1) >>
             \o CutInto(SubSeq(seq, stop, Len(seq)), { c - stop + 1 : c \in later })

\* Before run(): the raw results of some chunks, n items in all, each chunk
\* with its start in the recording.
InitNormalize ==
    /\ \E n \in 0..MaxMerged :
         /\ \E types \in [1..n -> ItemTypes], starts \in [1..n -> 0..1] :
              objects = [a \in 1..n |-> RawItem(types[a], starts[a])]
         /\ \E cuts \in SUBSET (2..n) :
              scribe_results = CutInto([a \in 1..n |-> a], cuts)
    /\ raw_items = objects
    /\ chunk_df = [c \in 1..Len(scribe_results) |-> 2 * (c - 1)]
    /\ master_words = <<>>
    /\ result_i = 0
    /\ pc = "merging"
    /\ OnlyStage(UsableIdle /\ AlignIdle /\ ChunkerIdle)

\* A plausible slip: the item itself is appended, not a copy of it.
item_itself(objs, a) == [ addr |-> a, objs |-> objs ]

\* line 42, item.copy(): a new dict with the same entries
item_copy(objs, a) == [ addr |-> Len(objs) + 1, objs |-> Append(objs, objs[a]) ]

\* lines 40-48: the items of one result, from the k-th on
RECURSIVE AppendItems(_, _, _, _, _)
AppendItems(objs, words, items, k, chunk_start_offset) ==
    IF k > Len(items) THEN [ objs |-> objs, words |-> words ]
    ELSE LET copied == item_copy(objs, items[k])
             item == copied.objs[items[k]]
             shifted == [ copied.objs EXCEPT
                            ![copied.addr].start = item.start + chunk_start_offset,
                            ![copied.addr].end =
                                copied.objs[items[k]].end + chunk_start_offset ]
         IN  AppendItems(shifted, Append(words, copied.addr), items, k + 1,
                         chunk_start_offset)

\* lines 54-55: word['id'] = i for the words from the k-th on
RECURSIVE NumberFrom(_, _, _)
NumberFrom(objs, words, k) ==
    IF k > Len(words) THEN objs
    ELSE NumberFrom([objs EXCEPT ![words[k]].id = << k - 1 >>], words, k + 1)

NormalizeStep ==
    UNCHANGED << original_words, marked_transcript, marked_tokens, token_idx,
                 word_idx, is_inside_cut_segment, current_segment, all_segments,
                 iters, skipped_tags, sync_warnings, source_vars, orch_vars,
                 editor_vars, snap_vars, splice_vars, usable_vars, align_vars,
                 chunker_vars, raw_items, scribe_results, chunk_df >>

\* lines 33-48: one iteration of the loop over the results
MergeResult ==
    /\ pc = "merging"
    /\ result_i < Len(scribe_results)
    /\ LET merged == AppendItems(objects, master_words, scribe_results[result_i + 1],
                                 1, chunk_df[result_i + 1])
       IN /\ objects' = merged.objs
          /\ master_words' = merged.words
    /\ result_i' = result_i + 1
    /\ UNCHANGED pc
    /\ NormalizeStep

\* lines 50-57: the loop has ended; the words are numbered and returned
NumberWords ==
    /\ pc = "merging"
    /\ result_i = Len(scribe_results)
    /\ objects' = NumberFrom(objects, master_words, 1)
    /\ pc' = "normalized"
    /\ UNCHANGED << master_words, result_i >>
    /\ NormalizeStep

NormalizeNext == MergeResult \/ NumberWords

SpecNormalize == InitNormalize /\ [][NormalizeNext]_vars

---------------------------------------------------------------------------
(* MfaChunkerService.run and MfaNormalizerService.run.  A tick is 0.5 s;   *)
(* entry i of the transcript spans the i-th tick of the recording.         *)

\* min_duration_ms = 1000, in ticks
min_duration == 2

\* An entry of the master transcript.
ScribeEntry(i, type) ==
    [ id |-> i - 1, text |-> WordTexts[i], type |-> type,
      start |-> i - 1, end |-> i ]

\* _find_word_at_time, lines 13-18: the first entry that holds the time, or
\* None (a sequence of at most one entry)
find_word_at_time(words, time_s) ==
    LET holding == { i \in 1..Len(words) :
                       words[i].start <= time_s /\ time_s <= words[i].end }
    IN  IF holding = {} THEN <<>> ELSE << words[SetMin(holding)] >>

\* lines 30-34: the split points, with the end of the recording
EligibleSplitPoints(points, total_duration_s) ==
    IF total_duration_s > 0 THEN points \cup { total_duration_s } ELSE points

\* lines 41-51: the split points that can end a chunk begun at current_start
ChunkEnds(points, words, current_start, total_duration_s) ==
    { split_point_s \in EligibleSplitPoints(points, total_duration_s) :
        /\ ~(split_point_s <= current_start)
        /\ ~(/\ split_point_s - current_start < min_duration
             /\ split_point_s # total_duration_s)
        /\ LET word_at_split == find_word_at_time(words, split_point_s) IN
           \/ word_at_split # <<>> /\ word_at_split[1].type = "spacing"
           \/ split_point_s >= total_duration_s }

\* lines 55-63
ChunkScribeWords(words, current_start, current_end) ==
    SelectSeq(words, LAMBDA word_obj :
        /\ word_obj.start < current_end
        /\ word_obj.end > current_start
        /\ word_obj.type = "word")

\* lines 70-76: the chunk record
MfaChunk(id, current_start, current_end, words) ==
    [ id |-> id, start_s |-> current_start, end_s |-> current_end,
      scribe_words |-> ChunkScribeWords(words, current_start, current_end) ]

\* dict.get(key, default)
DictGet(dict, key, default) == IF key \in DOMAIN dict THEN dict[key] ELSE default

\* MfaNormalizerService.run, line 95
IsReliable(chunk_info) == ~DictGet(chunk_info, "contains_audio_event", TRUE)

\* _parse_textgrid, lines 32-67, for a TextGrid with m word intervals; the
\* aligner places each word where the transcriber heard it
parse_textgrid(chunk_info, m, is_reliable) ==
    LET mfa_input_words ==
            SelectSeq(chunk_info.scribe_words,
                      LAMBDA w : w.type = "word" /\ w.text # "...")
        offset_s == chunk_info.start_s
    IN  [ k \in 1..Min(m, Len(mfa_input_words)) |->
            [ id |-> mfa_input_words[k].id,
              word |-> mfa_input_words[k].text,
              start |-> (mfa_input_words[k].start - offset_s) + offset_s,
              end |-> (mfa_input_words[k].end - offset_s) + offset_s,
              is_timestamp_reliable |-> is_reliable,
              phonemes |-> <<>> ] ]

\* Before the alignment stage: a transcript of n entries of any type, and
\* any split points.
InitAlign ==
    /\ \E n \in 1..MaxEntries :
         /\ \E types \in [1..n -> ItemTypes] :
              original_words = [i \in 1..n |-> ScribeEntry(i, types[i])]
         /\ split_points \in SUBSET (0..n)
    /\ mfa_chunks = <<>>
    /\ current_start_s = 0
    /\ textgrid_i = 0
    /\ final_mfa_data = <<>>
    /\ pc = "chunking"
    /\ marked_transcript = <<>>
    /\ marked_tokens = <<>>
    /\ token_idx = 0
    /\ word_idx = 0
    /\ is_inside_cut_segment = FALSE
    /\ current_segment = <<>>
    /\ all_segments = <<>>
    /\ iters = 0
    /\ skipped_tags = 0
    /\ sync_warnings = 0
    /\ SourceIdle
    /\ OrchReset
    /\ EditorIdle
    /\ SnapIdle
    /\ SpliceIdle
    /\ chunk_words = <<>>
    /\ is_usable = TRUE
    /\ NormIdle
    /\ ChunkerIdle

AlignStep ==
    UNCHANGED << original_words, marked_transcript, marked_tokens, token_idx,
                 word_idx, is_inside_cut_segment, current_segment, all_segments,
                 iters, skipped_tags, sync_warnings, source_vars, cut_i,
                 rejected, editor_calls, writer_calls, datapoints, editor_vars,
                 snap_vars, splice_vars, usable_vars, norm_vars, chunker_vars >>

\* MfaChunkerService.run, lines 38-80: one iteration of the while loop that
\* finds the end of a chunk
DefineChunk ==
    /\ pc = "chunking"
    /\ current_start_s < TotalDuration
    /\ LET ends == ChunkEnds(split_points, original_words, current_start_s,
                             TotalDuration)
       IN /\ ends # {}
          /\ LET current_end_s == SetMin(ends)
                 chunk == MfaChunk(Len(mfa_chunks), current_start_s, current_end_s,
                                   original_words)
             IN /\ mfa_chunks' = IF chunk.scribe_words = <<>> THEN mfa_chunks
                                 ELSE Append(mfa_chunks, chunk)
                /\ current_start_s' = current_end_s
    /\ UNCHANGED << pc, textgrid_i, final_mfa_data >>
    /\ AlignStep

\* lines 38 and 82-86: the recording is used up, or no split point can end
\* the chunk; the chunks are returned and handed to the aligner
ChunkerReturn ==
    /\ pc = "chunking"
    /\ \/ ~(current_start_s < TotalDuration)
       \/ ChunkEnds(split_points, original_words, current_start_s, TotalDuration) = {}
    /\ pc' = "normalizing"
    /\ UNCHANGED << mfa_chunks, current_start_s, textgrid_i, final_mfa_data >>
    /\ AlignStep

\* MfaNormalizerService.run, lines 82-98: one TextGrid file, with any
\* number of word intervals (none when it cannot be parsed)
NormalizeTextGrid ==
    /\ pc = "normalizing"
    /\ textgrid_i < Len(mfa_chunks)
    /\ LET chunk_info == mfa_chunks[textgrid_i + 1] IN
       \E m \in 0..Len(chunk_info.scribe_words) :
           final_mfa_data' =
               final_mfa_data \o parse_textgrid(chunk_info, m, IsReliable(chunk_info))
    /\ textgrid_i' = textgrid_i + 1
    /\ UNCHANGED << pc, mfa_chunks, current_start_s >>
    /\ AlignStep

\* lines 100-101
NormalizerReturn ==
    /\ pc = "normalizing"
    /\ textgrid_i = Len(mfa_chunks)
    /\ pc' = "aligned"
    /\ UNCHANGED << mfa_chunks, current_start_s, textgrid_i, final_mfa_data >>
    /\ AlignStep

AlignNext ==
    \/ DefineChunk
    \/ ChunkerReturn
    \/ NormalizeTextGrid
    \/ NormalizerReturn

SpecAlign == InitAlign /\ [][AlignNext]_vars

---------------------------------------------------------------------------
(* TranscriptionChunkerService.run.  Times are in ticks; an index is       *)
(* 0-based as in the code, split_points[i] is split_point_ms[i + 1].       *)

\* The configured max_duration_ms of the chunker.
Durations == { 1, 2 }

NonDecreasing(list) == \A i \in 1..(Len(list) - 1) : list[i] <= list[i + 1]

\* Before run(): any list of split points in time order.
InitChunker ==
    /\ split_point_ms \in { list \in SeqsUpTo(0..(MaxPoints + 1), MaxPoints) :
                              NonDecreasing(list) }
    /\ max_duration_ms \in Durations
    /\ chunks = <<>>
    /\ current_chunk_start_index = 0
    /\ pc = "splitting"
    /\ OnlyStage(UsableIdle /\ AlignIdle /\ NormIdle)

\* A plausible slip: a split point exactly max_duration_ms away is not
\* taken.
FurthestBelow(points, start_index, max_duration) ==
    LET start_time == points[start_index + 1]
        within == { i \in (start_index + 1)..(Len(points) - 1) :
                      \A j \in (start_index + 1)..i :
                          points[j + 1] - start_time < max_duration }
    IN  IF within = {} THEN start_index ELSE SetMax(within)

\* lines 32-39: the last index that the scan reaches before it breaks
FurthestWithin(points, start_index, max_duration) ==
    LET start_time == points[start_index + 1]
        within == { i \in (start_index + 1)..(Len(points) - 1) :
                      \A j \in (start_index + 1)..i :
                          points[j + 1] - start_time <= max_duration }
    IN  IF within = {} THEN start_index ELSE SetMax(within)

\* A plausible slip: no step is forced.
NoForcedStep(end_index, start_index) == end_index

\* lines 42-43
ForcedStep(end_index, start_index) ==
    IF end_index = start_index THEN end_index + 1 ELSE end_index

ChunkerStep ==
    UNCHANGED << original_words, marked_transcript, marked_tokens, token_idx,
                 word_idx, is_inside_cut_segment, current_segment, all_segments,
                 iters, skipped_tags, sync_warnings, source_vars, orch_vars,
                 editor_vars, snap_vars, splice_vars, usable_vars, align_vars,
                 norm_vars, split_point_ms, max_duration_ms >>

\* lines 30-52: one iteration of the while loop
NextChunk ==
    /\ pc = "splitting"
    /\ split_point_ms # <<>>
    /\ current_chunk_start_index < Len(split_point_ms) - 1
    /\ LET start_time == split_point_ms[current_chunk_start_index + 1]
           end_index == ForcedStep(
                            FurthestWithin(split_point_ms, current_chunk_start_index,
                                           max_duration_ms),
                            current_chunk_start_index)
           end_time == split_point_ms[end_index + 1]
       IN /\ chunks' = Append(chunks, [ chunk_start_ms |-> start_time,
                                        chunk_end_ms |-> end_time ])
          /\ current_chunk_start_index' = end_index
    /\ UNCHANGED pc
    /\ ChunkerStep

\* lines 23-24 and 54: no split point at all, or the loop has ended
ChunksReturn ==
    /\ pc = "splitting"
    /\ \/ split_point_ms = <<>>
       \/ ~(current_chunk_start_index < Len(split_point_ms) - 1)
    /\ pc' = "chunked"
    /\ UNCHANGED << chunks, current_chunk_start_index >>
    /\ ChunkerStep

ChunkerNext == NextChunk \/ ChunksReturn

SpecChunker == InitChunker /\ [][ChunkerNext]_vars

---------------------------------------------------------------------------
(* Claims about CutParserService.run on arbitrary input.                   *)

StrictlyIncreasing(run) == \A i \in 1..(Len(run) - 1) : run[i] < run[i + 1]

WordIds(words) == { words[i].id : i \in { j \in 1..Len(words) : words[j].type = "word" } }

WellFormedRun(run, words) ==
    /\ run # <<>>
    /\ StrictlyIncreasing(run)
    /\ \A i \in 1..Len(run) : run[i] \in WordIds(words)

\* C1: every run returned by CutParserService.run (and every run collected
\* while it runs) is non-empty, has strictly increasing ids, and holds only
\* ids of canonical entries of type 'word'.
C1_RunsWellFormed ==
    \A k \in 1..Len(all_segments) : WellFormedRun(all_segments[k], original_words)

\* C1's case: the parser has returned a run of two words.
C1_Witness ==
    /\ pc = "done"
    /\ \E k \in 1..Len(all_segments) : Len(all_segments[k]) >= 2

\* C5: every iteration of the loop leaves both cursors where they were or
\* further on and moves at least one of them, so that the loop has run at
\* most len(tokens) + len(words) iterations when it ends; an iteration that
\* finds a mismatch is followed by the next iteration or by the return.
C5_Terminates ==
    [][ iters' = iters + 1 =>
           /\ token_idx' >= token_idx
           /\ word_idx' >= word_idx
           /\ token_idx' + word_idx' > token_idx + word_idx
           /\ iters' <= token_idx' + word_idx'
           /\ token_idx' <= Len(marked_tokens)
           /\ word_idx' <= Len(original_words)
           /\ pc' = "loop" ]_vars

\* C5's case: the parser has returned after a token mismatch it could not
\* re-synchronize and one it could.
C5_Witness ==
    /\ pc = "done"
    /\ sync_warnings >= 2
    /\ token_idx = Len(marked_tokens)

---------------------------------------------------------------------------
(* Claims about round trips and drift.                                     *)

Returned(kind) == pc = "done" /\ drift.kind = kind

BaseRuns == ParseRun(original_words, base_transcript)

\* The parser reads the exact transcript without a "Sync warning".
BaseReadCleanly == ParseFinal(original_words, base_transcript).warned = 0

\* C2: run on the exact transcript returns exactly the wrapped id runs,
\* whatever the word texts are.
C2_RoundTrip == Returned("none") => all_segments = wrapped_runs

CanonicalTexts ==
    { normalize_word(original_words[i].text) : i \in 1..Len(original_words) }

\* C3: one extra non-tag token outside every span leaves the returned runs
\* as they are for the exact transcript.  (Stated for an exact transcript
\* that the parser reads without a warning and an inserted token that is
\* the text of no canonical entry: the claim fails there already.)
C3_InsertionTolerated ==
    (Returned("insert") /\ BaseReadCleanly /\ normalize_word(drift.tok) \notin CanonicalTexts)
        => all_segments = BaseRuns

BaseTokens == Tokenize(base_transcript)
DeletedText == normalize_word(BaseTokens[drift.pos])

IsLexical(tok) ==
    tok \notin {<<CutOpen>>, <<CutClose>>} /\ normalize_word(tok) # <<>>

\* The tokens that the parser can compare with the deleted word: those
\* after the deletion up to the first one that is neither a tag nor
\* punctuation only, and the lookahead_limit tokens after that one.
RecoveryWindow ==
    LET rest == SubSeq(BaseTokens, drift.pos + 1, Len(BaseTokens))
        lex == { k \in 1..Len(rest) : IsLexical(rest[k]) }
        first == IF lex = {} THEN Len(rest)
                 ELSE CHOOSE k \in lex : \A j \in lex : k <= j
        last == IF first + lookahead_limit < Len(rest)
                THEN first + lookahead_limit ELSE Len(rest)
    IN { normalize_word(rest[k]) : k \in 1..last }

Contiguous(run, words) ==
    \A id \in WordIds(words) :
        (run[1] < id /\ id < run[Len(run)]) => \E i \in 1..Len(run) : run[i] = id

\* C8: every run returned is contiguous in canonical id space, also when
\* the transcript omits or alters a word inside a span.
C8_RunsContiguous ==
    pc = "done" => \A k \in 1..Len(all_segments) : Contiguous(all_segments[k], original_words)

---------------------------------------------------------------------------
(* Claims about the boundary-word check of the cut loop.                   *)

Runs(calls) == { calls[k] : k \in 1..Len(calls) }

WordEntries(words) == SelectSeq(words, LAMBDA w : w.type = "word")

\* The id of the first entry of the canonical sequence, which the normalizer
\* numbers 0.
FirstCanonicalId == original_words[1].id

FirstWordId == WordEntries(original_words)[1].id
LastWordId == WordEntries(original_words)[Len(WordEntries(original_words))].id

\* C7: a run whose last id is the id of the last word of the recording is
\* never passed to the audio editor, and a run that the boundary-word check
\* rejects holds the first or the last word of the recording.
C7_LastWordNeverEdited ==
    /\ \A run \in Runs(editor_calls) : run[Len(run)] # LastWordId
    /\ \A run \in Runs(rejected) :
          \E i \in 1..Len(run) : run[i] \in {FirstWordId, LastWordId}

---------------------------------------------------------------------------
(* Claims about the boundaries without invasion.                           *)

\* A call with both factors 0 has returned.
NaturalCall == pc = "bounded" /\ backward_invasion = 0 /\ forward_invasion = 0

\* The place in the aligned list of the run's first and last word.
FirstPlace == CHOOSE k \in 1..Len(mfa_data) : mfa_data[k].id = cut_word_ids[1]
LastPlace ==
    CHOOSE k \in 1..Len(mfa_data) : mfa_data[k].id = cut_word_ids[Len(cut_word_ids)]
HasPrevious == FirstPlace > 1
HasNext == LastPlace < Len(mfa_data)
Previous == mfa_data[FirstPlace - 1]
Following == mfa_data[LastPlace + 1]

\* C9: with both factors 0 the start is the midpoint of the previous
\* aligned word's end and the first word's start, or 0 without a previous
\* word, and the end is the midpoint of the last word's end and the next
\* aligned word's start when there is a next word.  Returned times are in
\* tenths of a tick, so twice a midpoint is 10 times the sum.
C9_NaturalBoundaries ==
    NaturalCall =>
        /\ HasPrevious =>
              2 * boundaries[1] = 10 * (Previous.end + mfa_data[FirstPlace].start)
        /\ ~HasPrevious => boundaries[1] = 0
        /\ HasNext =>
              2 * boundaries[2] = 10 * (mfa_data[LastPlace].end + Following.start)

\* C9's example, with a tick of 0.3 s: previous end 0.3, first start 0.3,
\* last end 0.6, next start 0.6 gives (0.3, 0.6).
C9_Witness ==
    /\ NaturalCall
    /\ HasPrevious
    /\ HasNext
    /\ Previous.end = 1
    /\ mfa_data[FirstPlace].start = 1
    /\ mfa_data[LastPlace].end = 2
    /\ Following.start = 2
    /\ boundaries = << 10, 20 >>

\* The boundaries lie between the neighbours and the run.
BetweenNeighbours ==
    /\ 10 * Previous.end <= boundaries[1]
    /\ boundaries[1] <= 10 * mfa_data[FirstPlace].start
    /\ 10 * mfa_data[LastPlace].end <= boundaries[2]
    /\ boundaries[2] <= 10 * Following.start

\* C10: with both factors 0, for every run with a previous and a next
\* aligned word and every word times with start <= end per word,
\* previous.end <= start <= first_word.start and
\* last_word.end <= end <= next.start.
C10_BoundariesBetweenNeighbours ==
    (NaturalCall /\ HasPrevious /\ HasNext) => BetweenNeighbours

\* The neighbours do not overlap the run.
NeighboursApart ==
    /\ Previous.end <= mfa_data[FirstPlace].start
    /\ mfa_data[LastPlace].end <= Following.start

\* C10, amended: the same, for aligned words in which the previous word
\* ends no later than the first word starts and the last word ends no later
\* than the next word starts.
C10_BoundariesBetweenApartNeighbours ==
    (NaturalCall /\ HasPrevious /\ HasNext /\ NeighboursApart) => BetweenNeighbours

\* C10's case: gaps on both sides, and both boundaries strictly inside them.
C10_Witness ==
    /\ NaturalCall
    /\ HasPrevious
    /\ HasNext
    /\ Previous.end < mfa_data[FirstPlace].start
    /\ mfa_data[LastPlace].end < Following.start
    /\ 10 * Previous.end < boundaries[1]
    /\ boundaries[1] < 10 * mfa_data[FirstPlace].start
    /\ boundaries[2] < 10 * Following.start

---------------------------------------------------------------------------
(* Claims about the boundaries with invasion.                              *)

\* A call with a backward, or a forward, factor above 0 has returned.
BackwardCall == pc = "bounded" /\ backward_invasion > 0
ForwardCall == pc = "bounded" /\ forward_invasion > 0

LastPhoneme(word) == word.phonemes[Len(word.phonemes)]
FirstPhoneme(word) == word.phonemes[1]

\* C11: with backward_invasion > 0 the start is the end of the previous
\* word's last phoneme minus that phoneme's duration times the factor when
\* the previous word has phonemes; otherwise the midpoint of the previous
\* word's end and the first word's start when there is a previous word;
\* otherwise 0.  The end is symmetric, with the next word's first phoneme
\* and forward_invasion.  Returned times are in tenths of a tick and the
\* factors in tenths.
C11_InvasionBoundaries ==
    /\ BackwardCall =>
         IF HasPrevious /\ Previous.phonemes # <<>>
         THEN boundaries[1] =
                10 * LastPhoneme(Previous).end
                - (LastPhoneme(Previous).end - LastPhoneme(Previous).start)
                  * backward_invasion
         ELSE IF HasPrevious
         THEN 2 * boundaries[1] = 10 * (Previous.end + mfa_data[FirstPlace].start)
         ELSE boundaries[1] = 0
    /\ ForwardCall =>
         IF HasNext /\ Following.phonemes # <<>>
         THEN boundaries[2] =
                10 * FirstPhoneme(Following).start
                + (FirstPhoneme(Following).end - FirstPhoneme(Following).start)
                  * forward_invasion
         ELSE HasNext =>
                2 * boundaries[2] = 10 * (mfa_data[LastPlace].end + Following.start)

---------------------------------------------------------------------------
(* Claims about the invasion factors of the three variants.                *)

\* C12: the three variants use the policies natural (0, 0), backward
\* invasion (b, 0) and forward invasion (0, f), and the b or f of an invaded
\* variant is drawn anew for it: it is the latest of the random draws, made
\* for this call.
C12_FactorsDrawnPerVariant ==
    pc = "bounded" =>
        /\ backward_invasion = 0 \/ forward_invasion = 0
        /\ backward_invasion > 0 =>
              draws # <<>> /\ backward_invasion = draws[Len(draws)]
        /\ forward_invasion > 0 =>
              draws # <<>> /\ forward_invasion = draws[Len(draws)]

---------------------------------------------------------------------------
(* Claims about the zero-crossing snap.                                    *)

Returned13 == pc \in {"snapped", "resnapped"}

\* Every sample from index lo to index hi has the sign s.
SameSign(lo, hi, s) == \A i \in lo..hi : Sign(y_full[i + 1]) = s

\* C13: an out-of-bounds index is clamped into [0, len-1]; an in-bounds
\* index whose sample is 0 is returned unchanged; otherwise the result is
\* the last sample, scanning in the given direction from the index, that
\* still has the sign of the sample at the index: the one before the first
\* sample of different sign, or the sequence boundary when there is none.
C13_SnapResult ==
    Returned13 =>
        LET n == Len(y_full)
            r == snapped[1]
        IN
        IF ~(0 <= sample_index /\ sample_index < n)
        THEN /\ r = (IF sample_index < 0 THEN 0
                     ELSE IF n = 0 THEN 0 ELSE n - 1)
        ELSE IF y_full[sample_index + 1] = 0
        THEN r = sample_index
        ELSE LET s == Sign(y_full[sample_index + 1]) IN
             IF direction = "forward"
             THEN /\ sample_index <= r /\ r <= n - 1
                  /\ SameSign(sample_index, r, s)
                  /\ r = n - 1 \/ Sign(y_full[r + 2]) # s
             ELSE /\ 0 <= r /\ r <= sample_index
                  /\ SameSign(r, sample_index, s)
                  /\ r = 0 \/ Sign(y_full[r]) # s

\* C13's case: a forward scan that moved the index up to a sign change
\* which is not the end of the signal.
C13_Witness ==
    /\ Returned13
    /\ direction = "forward"
    /\ 0 <= sample_index
    /\ sample_index < snapped[1]
    /\ snapped[1] < Len(y_full) - 1

\* C14: snapping is idempotent, for every signal, every index, in or out of
\* bounds, and each direction.
C14_SnapIdempotent == pc = "resnapped" => resnapped = snapped

\* C14, amended: snapping is idempotent for every index within the signal.
C14_SnapIdempotentInBounds ==
    (pc = "resnapped" /\ InBounds(y_full, sample_index)) => resnapped = snapped

\* C14's case: a backward snap that moved the index, snapped again.
C14_Witness ==
    /\ pc = "resnapped"
    /\ direction = "backward"
    /\ InBounds(y_full, sample_index)
    /\ 0 < snapped[1]
    /\ snapped[1] < sample_index
    /\ resnapped = snapped

---------------------------------------------------------------------------
(* Claims about the splice of a variant.                                   *)

\* The start_ms and end_ms that _perform_direct_cut computed.
CutStartMs == RelativeMs(cut_samples[1], samples_per_ms, chunk_start_ms)
CutEndMs == RelativeMs(cut_samples[2], samples_per_ms, chunk_start_ms)

\* The frames of the chunk that the variant no longer has.
RemovedFrames ==
    { original_chunk[i] : i \in 1..Len(original_chunk) }
    \ { cut_chunk[1][i] : i \in 1..Len(cut_chunk[1]) }

\* The samples of those frames.
RemovedSamples ==
    { f * samples_per_ms + j : f \in RemovedFrames, j \in 0..(samples_per_ms - 1) }

\* A variant has been cut and audio was removed.
AudioRemoved == pc \in {"variant_cut", "returned"} /\ RemovedFrames # {}

\* C15: the audio removed begins exactly at the snapped start sample and
\* ends exactly at the snapped end sample: the first sample removed is the
\* snapped start sample, and the last one removed is the snapped end sample
\* or the sample before it.
C15_SpliceAtSnappedSamples ==
    AudioRemoved =>
        /\ \A x \in RemovedSamples : cut_samples[1] <= x
        /\ cut_samples[1] \in RemovedSamples
        /\ \A x \in RemovedSamples : x <= cut_samples[2]
        /\ cut_samples[2] \in RemovedSamples \/ cut_samples[2] - 1 \in RemovedSamples

\* C17: when the range computed for a variant is invalid (start >= end,
\* start < 0, or end beyond the audio buffer), run returns null, and never
\* audio labelled as a cut variant.
C17_InvalidRangeRejected ==
    (pc = "returned" /\ InvalidCut(original_chunk, CutStartMs, CutEndMs))
        => edit_results = <<>>

---------------------------------------------------------------------------
(* Claims about a cut whose first or last word was not aligned.            *)

\* The first or the last id of the run is the id of no aligned word.
EndAbsent(run) ==
    \/ \A k \in 1..Len(final_mfa_data) : final_mfa_data[k].id # run[1]
    \/ \A k \in 1..Len(final_mfa_data) : final_mfa_data[k].id # run[Len(run)]

\* C16: if the first or the last id of a run is absent from the aligned
\* words, the editor returns None without raising: the orchestrator calls
\* no writer and writes no datapoint for that run, and goes on to the next
\* run of the recording.
C16_AbsentWordSkipsCut ==
    \A j \in 1..Len(all_segments) :
        (all_segments[j] \in Runs(editor_calls) /\ EndAbsent(all_segments[j])) =>
            /\ all_segments[j] \notin Runs(writer_calls)
            /\ all_segments[j] \notin Runs(datapoints)
            /\ cut_i >= j

\* C16's case: the editor returned None for a run and was called for the
\* next one.
C16_Witness ==
    /\ Len(editor_calls) >= 2
    /\ EndAbsent(editor_calls[1])

---------------------------------------------------------------------------
(* Claims about the usability flag and the result of a synthesized cut.    *)

\* The cut has been synthesized and judged.
Judged == pc \in {"judged", "crashed", "written"}

\* The places in the aligned list of the run's first and last word, of the
\* word before the run and of the word after it.
RunFirstPlace ==
    CHOOSE k \in 1..Len(final_mfa_data) : final_mfa_data[k].id = cut_word_ids[1]
RunLastPlace ==
    CHOOSE k \in 1..Len(final_mfa_data) :
        final_mfa_data[k].id = cut_word_ids[Len(cut_word_ids)]
KeyPlaces ==
    { RunFirstPlace, RunLastPlace, RunFirstPlace - 1, RunLastPlace + 1 }
    \cap (1..Len(final_mfa_data))

FlaggedUnreliable(k) == final_mfa_data[k].is_timestamp_reliable = << FALSE >>

\* C18: if the run's first word, its last word, the aligned word before
\* the run or the aligned word after it carries a false reliability flag,
\* then is_usable is false, and a splice result is still produced.
C18_UnreliableEndpointUnusable ==
    (Judged /\ \E k \in KeyPlaces : FlaggedUnreliable(k)) =>
        (~is_usable /\ edit_results # <<>>)

\* C19: is_usable is true whenever the run's first word, last word,
\* predecessor and successor are all reliable or lack the flag, whatever
\* the reliability of the other words of the recording.
C19_ReliableEndpointsUsable ==
    (Judged /\ \A k \in KeyPlaces : ~FlaggedUnreliable(k)) => is_usable

\* The space-joined text of the run's words, as the sequence of the texts.
CutText ==
    [ k \in 1..Len(cut_word_ids) |->
        (CHOOSE w \in { original_words[i] : i \in 1..Len(original_words) } :
            w.id = cut_word_ids[k]).text ]

\* C20: the result handed to the dataset writer carries the three audio
\* variants, the usability flag and the cut text of the run, and the
\* writer's metadata record holds that same flag and cut text.
C20_ResultCarriesFlagAndText ==
    writer_calls # <<>> =>
        /\ { "natural_cut_audio", "backward_invasion_audio",
             "forward_invasion_audio" } \subseteq DOMAIN edit_results[1]
        /\ "is_usable" \in DOMAIN edit_results[1]
        /\ "cut_text" \in DOMAIN edit_results[1]
        /\ edit_results[1].is_usable = is_usable
        /\ edit_results[1].cut_text = CutText
        /\ datapoints # <<>>
        /\ datapoints[Len(datapoints)].is_usable = is_usable
        /\ datapoints[Len(datapoints)].cut_text = CutText

---------------------------------------------------------------------------
(* Claims about the cut loop as a whole.                                   *)

\* PipelineOrchestrator.run has stopped, by returning or by an exception.
OrchestratorStopped == pc \in {"finished", "crashed"}

\* How many datapoints were written for the run.
DatapointsFor(run) == Cardinality({ k \in 1..Len(datapoints) : datapoints[k] = run })

\* C21: a failure on one cut skips only that cut: once the orchestrator has
\* stopped, every run the parser returned has been skipped (by the
\* boundary-word check or by the editor) or handed to the dataset writer,
\* and every run that was synthesized has exactly one datapoint.
C21_EveryRunSkippedOrWritten ==
    OrchestratorStopped =>
        /\ \A j \in 1..Len(all_segments) :
              all_segments[j] \in Runs(rejected) \cup Runs(editor_calls)
        /\ \A run \in Runs(writer_calls) : DatapointsFor(run) = 1

---------------------------------------------------------------------------
(* Claims about the canonical entries that are no words.                   *)

\* The loop is at an iteration that reaches line 56 (the token is no tag
\* and not punctuation only) with a canonical entry of one of the types.
AtEntryOfType(types) ==
    /\ pc = "loop"
    /\ LoopCond(marked_tokens, original_words, PS)
    /\ Branch(marked_tokens, original_words, PS) \notin {"open", "close", "empty"}
    /\ WordAt(original_words, PS).type \in types

EventTypes == { "audio_event" }

\* The iteration advances the canonical cursor and nothing else: no token
\* is consumed, no recovery is run, no run is touched.
OnlyCanonicalCursorAdvances ==
    /\ word_idx' = word_idx + 1
    /\ token_idx' = token_idx
    /\ sync_warnings' = sync_warnings
    /\ skipped_tags' = skipped_tags
    /\ is_inside_cut_segment' = is_inside_cut_segment
    /\ current_segment' = current_segment
    /\ all_segments' = all_segments

\* Every id collected so far is the id of an entry of type 'word'.
OnlyWordIdsCollected ==
    /\ \A i \in 1..Len(current_segment) : current_segment[i] \in WordIds(original_words)
    /\ \A k \in 1..Len(all_segments) :
          \A i \in 1..Len(all_segments[k]) : all_segments[k][i] \in WordIds(original_words)

ComparedWithToken ==
    IF normalize_word(TokenAt(marked_tokens, PS)) = normalize_word(WordAt(original_words, PS).text)
    THEN /\ token_idx' = token_idx + 1
         /\ word_idx' = word_idx + 1
         /\ sync_warnings' = sync_warnings
    ELSE /\ sync_warnings' = sync_warnings + 1
         /\ \/ token_idx' > token_idx /\ word_idx' = word_idx
            \/ token_idx' = token_idx /\ word_idx' = word_idx + 1

---------------------------------------------------------------------------
(* Claims about the merged word list.                                      *)

RECURSIVE Flatten(_)
Flatten(lists) == IF lists = <<>> THEN <<>> ELSE lists[1] \o Flatten(Tail(lists))

\* The number of the chunk that holds the i-th item handed in.
ChunkOf(i) ==
    CHOOSE c \in 1..Len(scribe_results) :
        /\ Len(Flatten(SubSeq(scribe_results, 1, c - 1))) < i
        /\ i <= Len(Flatten(SubSeq(scribe_results, 1, c)))

\* C23: after ScribeNormalizerService.run the i-th entry of the merged list
\* has id i (counted from 0), so the ids are unique, increasing and cover
\* 0..n-1 with spacing and event entries included; the entries are the items
\* handed in, in chunk order and in-chunk order, shifted by their chunk's
\* start; and the dicts handed in are as they were.
C23_IdsNumberTheMergedList ==
    pc = "normalized" =>
        LET handed == Flatten(scribe_results) IN
        /\ Len(master_words) = Len(handed)
        /\ \A i \in 1..Len(master_words) :
              LET word == objects[master_words[i]]
                  raw == raw_items[handed[i]]
              IN  /\ word.id = << i - 1 >>
                  /\ word.type = raw.type
                  /\ word.start = raw.start + chunk_df[ChunkOf(i)]
                  /\ word.end = raw.end + chunk_df[ChunkOf(i)]
        /\ \A a \in 1..Len(raw_items) : objects[a] = raw_items[a]

\* C23's case: two chunks with three items, a spacing or an event among
\* them, have been merged and numbered.
C23_Witness ==
    /\ pc = "normalized"
    /\ Len(scribe_results) = 2
    /\ Len(master_words) = 3
    /\ \E i \in 1..3 : objects[master_words[i]].type # "word"
    /\ objects[master_words[3]].id = << 2 >>

---------------------------------------------------------------------------
(* Claims about the reliability flag of the aligned words.                 *)

\* An audio event of the transcript lies within the chunk.
ContainsAudioEvent(chunk) ==
    \E i \in 1..Len(original_words) :
        /\ original_words[i].type \in EventTypes
        /\ original_words[i].start < chunk.end_s
        /\ original_words[i].end > chunk.start_s

\* The aligned words of the chunk.
AlignedOf(chunk) ==
    { k \in 1..Len(final_mfa_data) :
        \E j \in 1..Len(chunk.scribe_words) :
            chunk.scribe_words[j].id = final_mfa_data[k].id }

\* C24: for every chunk that MfaChunkerService.run produced and
\* MfaNormalizerService.run normalized, each aligned word is flagged reliable
\* exactly when the chunk contains no audio event.
C24_ReliableWithoutAudioEvent ==
    pc = "aligned" =>
        \A c \in 1..Len(mfa_chunks) :
            \A k \in AlignedOf(mfa_chunks[c]) :
                final_mfa_data[k].is_timestamp_reliable
                    = ~ContainsAudioEvent(mfa_chunks[c])

---------------------------------------------------------------------------
(* Claims about the transcription chunks.                                  *)

Duration(chunk) == chunk.chunk_end_ms - chunk.chunk_start_ms

SplitTimes == { split_point_ms[i] : i \in 1..Len(split_point_ms) }

\* The chunk ends at the furthest split point that is within
\* max_duration_ms of its start.
EndsAtFurthestWithin(chunk) ==
    /\ Duration(chunk) <= max_duration_ms
    /\ \A t \in SplitTimes :
          t - chunk.chunk_start_ms <= max_duration_ms => t <= chunk.chunk_end_ms

ForcedToNextSplitPoint(chunk) ==
    /\ Duration(chunk) > max_duration_ms
    /\ \A t \in SplitTimes :
          t > chunk.chunk_start_ms => t >= chunk.chunk_end_ms

Tiles ==
    /\ chunks # <<>>
    /\ chunks[1].chunk_start_ms = split_point_ms[1]
    /\ \A k \in 1..(Len(chunks) - 1) :
          chunks[k + 1].chunk_start_ms = chunks[k].chunk_end_ms
    /\ chunks[Len(chunks)].chunk_end_ms = split_point_ms[Len(split_point_ms)]
    /\ \A k \in 1..Len(chunks) :
          chunks[k].chunk_start_ms \in SplitTimes /\ chunks[k].chunk_end_ms \in SplitTimes

\* C26: for every list of at least two split points the loop terminates
\* (every iteration moves the start index forward, and never past the last
\* split point) and the chunks returned tile the recording: the first starts
\* at the first split point, each later one starts where the one before it
\* ended, the last ends at the last split point, and every chunk boundary is
\* a split point.
C26_ChunksTileTheRecording ==
    [][ /\ Len(chunks') = Len(chunks) + 1 =>
              /\ current_chunk_start_index' > current_chunk_start_index
              /\ current_chunk_start_index' <= Len(split_point_ms) - 1
        /\ (pc' = "chunked" /\ Len(split_point_ms) >= 2) => Tiles' ]_vars

\* C26's case: three chunks were returned, one of them forced over a gap
\* longer than max_duration_ms.
C26_Witness ==
    /\ pc = "chunked"
    /\ Len(chunks) = 3
    /\ \E k \in 1..3 : Duration(chunks[k]) > max_duration_ms
    /\ Tiles

---------------------------------------------------------------------------
(* Claims about tags and the runs as a whole.                              *)

\* C27: the lookahead recovery never discards a tag: no "<cut>" or "</cut>"
\* token is among the tokens that a re-synchronization skips as inserted.
C27_LookaheadKeepsTags == skipped_tags = 0


\* The ids of the runs, in output order.
AllRunIds == Flatten(all_segments)

\* The number of "<cut>" tokens of the transcript.
CutTokens ==
    Cardinality({ k \in 1..Len(marked_tokens) : marked_tokens[k] = << CutOpen >> })

\* C28: in the list that CutParserService.run returns no word id occurs in
\* more than one run, the runs concatenated in output order are strictly
\* increasing in id, and there are at most as many runs as "<cut>" tokens in
\* the transcript.
C28_RunsDisjointAndOrdered ==
    pc \in {"loop", "done"} =>
        /\ StrictlyIncreasing(AllRunIds)
        /\ \A j \in 1..Len(all_segments), k \in 1..Len(all_segments) :
              j # k => \A i \in 1..Len(all_segments[j]) :
                          \A h \in 1..Len(all_segments[k]) :
                              all_segments[j][i] # all_segments[k][h]
        /\ Len(all_segments) <= CutTokens

\* C28's case: from a transcript with a drift the parser returned two runs,
\* one for each "<cut>" token.
C28_Witness ==
    /\ pc = "done"
    /\ drift.kind # "none"
    /\ Len(all_segments) = 2
    /\ CutTokens = 2

---------------------------------------------------------------------------
(* Claims about what invasion does to a cut.                               *)

\* What the call with both factors 0 returns for the same run.
NaturalBoundaries == get_cut_boundaries(cut_word_ids, mfa_data, 0, 0)

\* C29: invasion only widens a cut: for a run with a previous aligned word
\* that ends no later than the run's first word starts, the start returned
\* with backward_invasion > 0 is never later than the start returned with
\* both factors 0, whether or not the previous word has phonemes; and for a
\* run with a next aligned word that starts no earlier than the run's last
\* word ends, the end returned with forward_invasion > 0 is never earlier
\* than the end returned with both factors 0.
C29_InvasionOnlyWidens ==
    /\ (BackwardCall /\ HasPrevious /\ Previous.end <= mfa_data[FirstPlace].start)
          => boundaries[1] <= NaturalBoundaries[1]
    /\ (ForwardCall /\ HasNext /\ mfa_data[LastPlace].end <= Following.start)
          => boundaries[2] >= NaturalBoundaries[2]

---------------------------------------------------------------------------
(* Claims about the direction of the snap.                                 *)

\* The boundaries of the variant have been snapped.
BoundariesSnapped == pc \in {"variant_snapped", "variant_cut", "returned"}

\* The samples that the snap was called with, int(time * sr).
StartIndex == (boundaries[1] * samples_per_ms) \div 10
EndIndex == (boundaries[2] * samples_per_ms) \div 10

\* For an index within the signal the result r is an index of the signal,
\* on the side of the index that the direction names, and every sample from
\* the one to the other has the sign of the sample at the index.
SnappedOutward(index, r, dir) ==
    InBounds(y_full, index) =>
        /\ InBounds(y_full, r)
        /\ dir = "backward" => r <= index
        /\ dir = "forward" => r >= index
        /\ SameSign(Min(index, r), Max(index, r), Sign(y_full[index + 1]))

\* C30 as claimed: for a non-empty signal and an in-bounds index the snap
\* returns a valid index, not after the index for 'backward' and not before
\* it for 'forward', with every sample between the two of the sign of the
\* sample at the index; and in AudioEditorService.run the snapped range
\* always contains the unsnapped one.
C30_SnappedRangeContainsCut ==
    BoundariesSnapped =>
        /\ SnappedOutward(StartIndex, cut_samples[1], "backward")
        /\ SnappedOutward(EndIndex, cut_samples[2], "forward")
        /\ cut_samples[1] <= StartIndex
        /\ EndIndex <= cut_samples[2]

\* C30, amended: the same for the snap itself; in AudioEditorService.run the
\* snapped range contains the unsnapped one whenever the unsnapped end is a
\* sample of the signal, and a cut that ends at the end of the recording,
\* whose end is the sample after the last one, is snapped to the last
\* sample, before its unsnapped end.
C30_SnappedRangeContainsCutInBounds ==
    BoundariesSnapped =>
        /\ SnappedOutward(StartIndex, cut_samples[1], "backward")
        /\ SnappedOutward(EndIndex, cut_samples[2], "forward")
        /\ cut_samples[1] <= StartIndex
        /\ InBounds(y_full, EndIndex) => EndIndex <= cut_samples[2]
        /\ ~InBounds(y_full, EndIndex) => cut_samples[2] = Len(y_full) - 1

\* C30's case: both boundaries lie within the signal and the snap moved
\* both of them outwards.
C30_Witness ==
    /\ BoundariesSnapped
    /\ InBounds(y_full, StartIndex)
    /\ InBounds(y_full, EndIndex)
    /\ StartIndex <= EndIndex
    /\ cut_samples[1] < StartIndex
    /\ EndIndex < cut_samples[2]

===========================================================================
